---- MODULE Spec2Model ----
(***************************************************************************)
(* Cricket Auction Hub: the tournament configuration sub-resources (bid    *)
(* timer, auction categories, voting flag, teams, captain votes) as the    *)
(* UI components drive them against the remote store.                      *)
(*                                                                         *)
(* Every request to the store is modelled in three steps: the component    *)
(* issues it (phase "req"), the store executes it (phase "resp", with the  *)
(* data or the error it produced), and the component handles the response. *)
(* A request may also fail in transit ("network"); it is then not applied. *)
(***************************************************************************)
EXTENDS Integers, Sequences, FiniteSets

\* ---------------------------------------------------------------- bounds
\* Largest number_of_teams a tournament is configured with.
MaxNumberOfTeams == 2
\* Team rows the store holds at most.
MaxStoredTeams == 3
\* Captain rows the store holds at most, and the most votes one of them has.
MaxCaptains == 3
MaxVotesValue == 2
\* Category rows the store holds at most.
MaxConfigs == 2
\* Most requests of the category modal of one client in flight at once.
MaxCatInFlight == 1
\* Captain rows the CreateCaptains page adds at most.
MaxCreatedCaptains == 2
\* Config rows stored at most when the low numbers are tried.
MaxLowConfigs == 1
\* Most loads one page may have in flight when pages are opened in turn.
MaxPageLoads == 1
\* Rows inserted at most by the client that works with one control.
MaxWriteRows == 1
\* Rows inserted at most through direct calls of the store.
MaxApiRows == 3
\* Requests one of two sessions sharing a config may have in flight at once.
MaxSharedInFlight == 1
\* Requests the modal may have in flight at once when its refreshes overlap.
MaxOverlap == 2
\* Updates of one auction_config row that its updated_at tells apart.
MaxTouches == 2
\* Teams created at most on the page with the captain search.
MaxSearchTeams == 2
\* Most fetches one component may have in flight at once.
MaxInFlight == 2
\* The same where two clients race.
MaxInFlightRace == 1

NULL == "null"

\* Row ids are 1, 2, ...; a null id reference is 0.
NoId == 0

\* A JS number as far as the forms need it: NaN, or an integer value.
NaN == [isNaN |-> TRUE, value |-> 0]
Num(n) == [isNaN |-> FALSE, value |-> n]

Clients == {"c1", "c2"}
TournamentIds == {"t1", "t2"}
Users == {"u1", "u2"}

VARIABLES
    \* ---- the store
    tournaments,        \* tournament id -> row
    auction_timer,      \* set of rows [id, tournament_id, bid_time]
    auction_config,     \* set of rows [id, tournament_id, category, max_players,
                        \*              base_price, created_at, is_active]
    teams,              \* set of rows [id, tournament_id, name, captain_id,
                        \*              budget_remaining, owner_id, created_at]
    tournament_captain, \* set of rows [id, tournament_id, votes, created_at, is_active]
    nextId,             \* rows inserted so far: the next id and created_at
    \* ---- each client: who is logged in, which tournament its components show
    session,
    toast,              \* the last notification shown: [client, title]
    route,              \* the page each client is on
    \* ---- BidTimerConfigModal
    timerOpen, bidTime, timerLoading, timerSaving, existingId,
    timerFetches, timerSaves,
    \* ---- TournamentActionMenu (voting toggle)
    isVotingLive, isTogglingVoting, votingReqs,
    \* ---- CategoryConfigModal
    catOpen, configs, catLoading, catSaving, editingId, category, maxPlayers,
    basePrice, catFetches, catSaves, catDeletes,
    \* ---- CreateTeams page (its tournament, teams and loading state)
    ctTournament, ctTeams, ctLoading, creating, teamName, teamBudget,
    selectedCaptain, ctFetches, ctCreates,
    \* ---- ViewCaptainVotes page (its tournament and loading state)
    vcTournament, captains, vcLoading, vcFetches,
    \* ---- CreateCaptains page
    ccTournament, ccCaptains, ccLoading, ccCreating, captainName, captainMobile,
    photoPreview, ccFetches, ccCreates,
    \* ---- observer of the bid-timer scenario (no program state)
    timerScenario,
    \* ---- the control the client of a one-control scenario works with
    control,
    \* ---- the profiles table and the captain search of CreateTeams
    profiles, searchModalOpen, searchMobile, searchResults, searching, ctSearches

timerVars == <<timerOpen, bidTime, timerLoading, timerSaving, existingId,
               timerFetches, timerSaves>>
votingVars == <<isVotingLive, isTogglingVoting, votingReqs>>
catVars == <<catOpen, configs, catLoading, catSaving, editingId, category, maxPlayers,
             basePrice, catFetches, catSaves, catDeletes>>
teamsVars == <<ctTournament, ctTeams, ctLoading, creating, teamName, teamBudget,
               selectedCaptain, ctFetches, ctCreates>>
votesVars == <<vcTournament, captains, vcLoading, vcFetches>>
searchVars == <<searchModalOpen, searchMobile, searchResults, searching, ctSearches>>
captainsVars == <<ccTournament, ccCaptains, ccLoading, ccCreating, captainName,
                  captainMobile, photoPreview, ccFetches, ccCreates>>
tables == <<tournaments, auction_timer, auction_config, teams, tournament_captain>>
vars == <<tables, nextId, session, toast, route, timerVars, votingVars, catVars,
          teamsVars, votesVars, captainsVars, timerScenario, control, profiles,
          searchVars>>

\* What a step of one component leaves alone besides its own variables.
timerFrame == <<control, profiles, searchVars, tournaments, auction_config, teams, tournament_captain, route,
                votingVars, catVars, teamsVars, votesVars, captainsVars>>
votingFrame == <<auction_timer, auction_config, teams, tournament_captain, nextId, route,
                 timerVars, timerScenario, control, profiles, searchVars, catVars, teamsVars, votesVars, captainsVars>>
catFrame == <<tournaments, auction_timer, teams, tournament_captain, route,
              timerVars, timerScenario, control, profiles, searchVars, votingVars, teamsVars, votesVars, captainsVars>>
teamsFrame == <<tournaments, auction_timer, auction_config, tournament_captain,
                timerVars, timerScenario, control, profiles, votingVars, catVars, votesVars, captainsVars>>
votesFrame == <<tables, nextId, timerVars, timerScenario, control, profiles, searchVars, votingVars, catVars, teamsVars,
                captainsVars>>
captainsFrame == <<tournaments, auction_timer, auction_config, teams, timerVars,
                   timerScenario, control, profiles, searchVars, votingVars, catVars, teamsVars, votesVars>>

NoToast == [client |-> NULL, title |-> NULL]
Toast(c, title) == [client |-> c, title |-> title]

\* ------------------------------------------------------------ sequences
RECURSIVE SeqSum(_)
SeqSum(s) == IF s = <<>> THEN 0 ELSE Head(s) + SeqSum(Tail(s))

RemoveAt(s, i) == [j \in 1..(Len(s) - 1) |-> IF j < i THEN s[j] ELSE s[j + 1]]

ReplaceAt(s, i, e) == [s EXCEPT ![i] = e]

\* ------------------------------------------------- text <-> number (JS)
Digits == <<"0", "1", "2", "3", "4", "5", "6", "7", "8", "9">>

IsDigit(ch) == \E i \in 1..10 : Digits[i] = ch

DigitVal(ch) == (CHOOSE i \in 1..10 : Digits[i] = ch) - 1

RECURSIVE LeadingDigits(_)
LeadingDigits(s) ==
    IF s = <<>> \/ ~IsDigit(Head(s)) THEN <<>>
    ELSE <<Head(s)>> \o LeadingDigits(Tail(s))

RECURSIVE DigitsValue(_, _)
DigitsValue(s, acc) ==
    IF s = <<>> THEN acc ELSE DigitsValue(Tail(s), acc * 10 + DigitVal(Head(s)))

RECURSIVE TrimStart(_)
TrimStart(s) == IF s # <<>> /\ Head(s) = " " THEN TrimStart(Tail(s)) ELSE s

\* parseInt(text): leading blanks are skipped, then an optional sign, then the
\* longest run of digits; whatever follows is ignored; no digit gives NaN.
ParseInt(text) ==
    LET t == TrimStart(text)
        signed == t # <<>> /\ Head(t) \in {"-", "+"}
        body == IF signed THEN Tail(t) ELSE t
        ds == LeadingDigits(body)
    IN  IF ds = <<>> THEN NaN
        ELSE IF signed /\ Head(t) = "-" THEN Num(0 - DigitsValue(ds, 0))
        ELSE Num(DigitsValue(ds, 0))

\* A JS number with a fraction, as parseFloat yields it: NaN, or a sign, the
\* whole part and the digits after the point (without trailing zeros).
NaNFloat == [isNaN |-> TRUE, neg |-> FALSE, whole |-> 0, frac |-> <<>>]

RECURSIVE StripTrailingZeros(_)
StripTrailingZeros(ds) ==
    IF ds # <<>> /\ ds[Len(ds)] = "0"
    THEN StripTrailingZeros(SubSeq(ds, 1, Len(ds) - 1)) ELSE ds

\* parseFloat(text): leading blanks, an optional sign, digits, optionally a
\* point and more digits; whatever follows is ignored; no digit gives NaN.
ParseFloat(text) ==
    LET t == TrimStart(text)
        signed == t # <<>> /\ Head(t) \in {"-", "+"}
        body == IF signed THEN Tail(t) ELSE t
        ws == LeadingDigits(body)
        rest == SubSeq(body, Len(ws) + 1, Len(body))
        fs == IF rest # <<>> /\ Head(rest) = "." THEN LeadingDigits(Tail(rest)) ELSE <<>>
    IN  IF ws = <<>> /\ fs = <<>> THEN NaNFloat
        ELSE [isNaN |-> FALSE, neg |-> (signed /\ Head(t) = "-"),
              whole |-> DigitsValue(ws, 0), frac |-> StripTrailingZeros(fs)]

\* x <= 0 for such a number (false for NaN, as every comparison with NaN)
FloatLeqZero(x) == ~x.isNaN /\ (x.neg \/ (x.whole = 0 /\ x.frac = <<>>))

RECURSIVE TrimEnd(_)
TrimEnd(s) ==
    IF s # <<>> /\ s[Len(s)] = " " THEN TrimEnd(SubSeq(s, 1, Len(s) - 1)) ELSE s

\* String.prototype.trim()
Trim(s) == TrimEnd(TrimStart(s))

IsNaN(n) == n.isNaN

RECURSIVE NatToString(_)
NatToString(n) ==
    IF n < 10 THEN <<Digits[n + 1]>>
    ELSE NatToString(n \div 10) \o <<Digits[(n % 10) + 1]>>

\* Number.prototype.toString() of an integer
ToString(n) == IF n < 0 THEN <<"-">> \o NatToString(0 - n) ELSE NatToString(n)

\* Number.prototype.toString() of such a number
FloatToString(x) ==
    IF x.isNaN THEN <<"N", "a", "N">>
    ELSE (IF x.neg THEN <<"-">> ELSE <<>>) \o NatToString(x.whole)
         \o (IF x.frac = <<>> THEN <<>> ELSE <<".">> \o x.frac)

\* ================================================================ store
\* The caller may write a row of a sub-resource table iff it is the organizer
\* of the row's tournament (policy "Organizers can manage ...", FOR ALL).
IsOrganizer(caller, tid) ==
    tid \in DOMAIN tournaments /\ tournaments[tid].organizer_id = caller

TimerRowsOf(tid) == {r \in auction_timer : r.tournament_id = tid}

\* select * from auction_timer where tournament_id = tid  (maybeSingle): the
\* row inside a sequence, or the empty sequence for a null data.
TimerSelect(tid) ==
    IF TimerRowsOf(tid) = {} THEN <<>> ELSE <<CHOOSE r \in TimerRowsOf(tid) : TRUE>>

TimerUniqueViolated_Never(tid) == FALSE

\* tournament_id ... UNIQUE
TimerUniqueViolated(tid) == TimerRowsOf(tid) # {}

\* insert into auction_timer: the error the store answers with, or NULL
TimerInsertError(caller, tid) ==
    IF tid \notin DOMAIN tournaments THEN "foreign_key"
    ELSE IF ~IsOrganizer(caller, tid) THEN "rls"
    ELSE IF TimerUniqueViolated(tid) THEN "unique"
    ELSE NULL

TimerInsert(tid, n) ==
    auction_timer \cup {[id |-> nextId + 1, tournament_id |-> tid, bid_time |-> n]}

\* update auction_timer set bid_time = n where id = rid: rows the caller may
\* not write are skipped without an error.
TimerUpdate(caller, rid, n) ==
    {IF r.id = rid /\ IsOrganizer(caller, r.tournament_id)
         THEN [r EXCEPT !.bid_time = n] ELSE r : r \in auction_timer}

\* ================================================== BidTimerConfigModal
\* What a user can type into the bid-time field.
TimerTexts == {
    <<"5">>, <<"1", "2", "0">>, <<"7", ".", "5">>,
    <<"4", ".", "9">>, <<"1", "2", "1">>, <<"-", "7">>, <<>> }

TimerRejected_NoUpper(n) == IsNaN(n) \/ n.value < 5

TimerRejected_NoLower(n) == IsNaN(n) \/ n.value > 120

\* if (isNaN(bidTimeNum) || bidTimeNum < 5 || bidTimeNum > 120) -> rejected
TimerRejected(n) == IsNaN(n) \/ n.value < 5 \/ n.value > 120

TimerSaveKind_AlwaysInsert(id) == "insert"

\* if (existingId) update ... else insert
TimerSaveKind(id) == IF id # NoId THEN "update" ELSE "insert"

\* loading ? spinner : form, inside the open dialog
TimerFormShown(c) == timerOpen[c] /\ ~timerLoading[c]

\* useEffect([open, tournamentId]) -> fetchTimer(), up to its await
TimerOpenModal(c) ==
    /\ ~timerOpen[c]
    /\ timerOpen' = [timerOpen EXCEPT ![c] = TRUE]
    /\ timerLoading' = [timerLoading EXCEPT ![c] = TRUE]
    /\ timerFetches' = [timerFetches EXCEPT ![c] =
            Append(@, [phase |-> "req", data |-> <<>>, error |-> NULL])]
    /\ UNCHANGED <<timerFrame, auction_timer, nextId, session, toast, bidTime, timerSaving, existingId,
                   timerSaves>>

\* Cancel button / dismissing the dialog: onOpenChange(false)
TimerCloseModal(c) ==
    /\ timerOpen[c]
    /\ timerOpen' = [timerOpen EXCEPT ![c] = FALSE]
    /\ UNCHANGED <<timerFrame, auction_timer, nextId, session, toast, bidTime, timerLoading, timerSaving,
                   existingId, timerFetches, timerSaves>>

\* onChange of the input: setBidTime(e.target.value)
TimerSetBidTime(c, text) ==
    /\ TimerFormShown(c)
    /\ bidTime[c] # text
    /\ bidTime' = [bidTime EXCEPT ![c] = text]
    /\ UNCHANGED <<timerFrame, auction_timer, nextId, session, toast, timerOpen, timerLoading, timerSaving,
                   existingId, timerFetches, timerSaves>>

\* the store executes the select of fetchTimer, or the request fails
TimerStoreFetch(c, i) ==
    /\ i \in 1..Len(timerFetches[c])
    /\ timerFetches[c][i].phase = "req"
    /\ \E failed \in BOOLEAN :
        timerFetches' = [timerFetches EXCEPT ![c] = ReplaceAt(@, i,
            IF failed
            THEN [phase |-> "resp", data |-> <<>>, error |-> "network"]
            ELSE [phase |-> "resp",
                  data |-> TimerSelect(session[c].tournamentId),
                  error |-> NULL])]
    /\ UNCHANGED <<timerFrame, auction_timer, nextId, session, toast, timerOpen, bidTime, timerLoading,
                   timerSaving, existingId, timerSaves>>

\* fetchTimer after its await
TimerFetchDone(c, i) ==
    /\ i \in 1..Len(timerFetches[c])
    /\ timerFetches[c][i].phase = "resp"
    /\ LET f == timerFetches[c][i] IN
        IF f.error # NULL
        THEN /\ toast' = Toast(c, "Error: Failed to load timer config.")
             /\ UNCHANGED <<bidTime, existingId>>
        ELSE IF f.data # <<>>
        THEN /\ bidTime' = [bidTime EXCEPT ![c] = ToString(f.data[1].bid_time)]
             /\ existingId' = [existingId EXCEPT ![c] = f.data[1].id]
             /\ UNCHANGED toast
        ELSE /\ bidTime' = [bidTime EXCEPT ![c] = <<"1", "0">>]
             /\ existingId' = [existingId EXCEPT ![c] = NoId]
             /\ UNCHANGED toast
    /\ timerLoading' = [timerLoading EXCEPT ![c] = FALSE]
    /\ timerFetches' = [timerFetches EXCEPT ![c] = RemoveAt(@, i)]
    /\ UNCHANGED <<timerFrame, auction_timer, nextId, session, timerOpen, timerSaving, timerSaves>>

\* handleSubmit up to its await
TimerHandleSubmit(c) ==
    /\ TimerFormShown(c)
    /\ ~timerSaving[c]
    /\ LET bidTimeNum == ParseInt(bidTime[c]) IN
        IF TimerRejected(bidTimeNum)
        THEN /\ toast' = Toast(c, "Validation Error")
             /\ UNCHANGED <<timerSaving, timerSaves>>
        ELSE /\ timerSaving' = [timerSaving EXCEPT ![c] = TRUE]
             /\ timerSaves' = [timerSaves EXCEPT ![c] = Append(@,
                    [kind |-> TimerSaveKind(existingId[c]),
                     id |-> existingId[c],
                     tournament_id |-> session[c].tournamentId,
                     bid_time |-> bidTimeNum.value,
                     phase |-> "req", error |-> NULL])]
             /\ UNCHANGED toast
    /\ UNCHANGED <<timerFrame, auction_timer, nextId, session, timerOpen, bidTime, timerLoading, existingId,
                   timerFetches>>

\* the store executes the update or the insert, or the request fails
TimerStoreSave(c, i) ==
    /\ i \in 1..Len(timerSaves[c])
    /\ timerSaves[c][i].phase = "req"
    /\ LET q == timerSaves[c][i]
           caller == session[c].user
           answer(err) == [timerSaves EXCEPT ![c] =
                              ReplaceAt(@, i, [q EXCEPT !.phase = "resp", !.error = err])]
       IN
        \/ /\ timerSaves' = answer("network")
           /\ UNCHANGED <<auction_timer, nextId>>
        \/ /\ q.kind = "update"
           /\ auction_timer' = TimerUpdate(caller, q.id, q.bid_time)
           /\ timerSaves' = answer(NULL)
           /\ UNCHANGED nextId
        \/ /\ q.kind = "insert"
           /\ LET err == TimerInsertError(caller, q.tournament_id) IN
               /\ timerSaves' = answer(err)
               /\ IF err = NULL
                  THEN /\ auction_timer' = TimerInsert(q.tournament_id, q.bid_time)
                       /\ nextId' = nextId + 1
                  ELSE UNCHANGED <<auction_timer, nextId>>
    /\ UNCHANGED <<timerFrame, session, toast, timerOpen, bidTime, timerLoading,
                   timerSaving, existingId, timerFetches>>

\* handleSubmit after its await
TimerSaveDone(c, i) ==
    /\ i \in 1..Len(timerSaves[c])
    /\ timerSaves[c][i].phase = "resp"
    /\ IF timerSaves[c][i].error = NULL
       THEN /\ toast' = Toast(c, "Success: Bid timer configuration saved.")
            /\ timerOpen' = [timerOpen EXCEPT ![c] = FALSE]
       ELSE /\ toast' = Toast(c, "Error: Failed to save timer config.")
            /\ UNCHANGED timerOpen
    /\ timerSaving' = [timerSaving EXCEPT ![c] = FALSE]
    /\ timerSaves' = [timerSaves EXCEPT ![c] = RemoveAt(@, i)]
    /\ UNCHANGED <<timerFrame, auction_timer, nextId, session, bidTime, timerLoading, existingId, timerFetches>>

\* ================================================= TournamentActionMenu
\* The tournament row as the store holds it.
StoredTournament(c) == tournaments[session[c].tournamentId]

\* The isCaptainVoting prop: the tournament's captain_voting_enabled.
IsCaptainVoting(c) == StoredTournament(c).captain_voting_enabled

\* Writes to tournaments are the organizer's.
TournamentWritable(caller, tid) == IsOrganizer(caller, tid)

\* update({ is_voting_live: !isVotingLive })
VotingNewValue(live) == ~live

VotingToastTitle_Swapped(live) == IF live THEN "Voting Started" ELSE "Voting Stopped"

\* title: isVotingLive ? "Voting Stopped" : "Voting Started"
VotingToastTitle(live) == IF live THEN "Voting Stopped" ELSE "Voting Started"

\* handleToggleVoting up to its await; the handler keeps the isVotingLive of
\* the render it was created in.
VotingHandleToggle_NoFlag(c) ==
    /\ IsCaptainVoting(c)
    /\ isTogglingVoting' = [isTogglingVoting EXCEPT ![c] = TRUE]
    /\ votingReqs' = [votingReqs EXCEPT ![c] = Append(@,
            [value |-> VotingNewValue(isVotingLive[c]), wasLive |-> isVotingLive[c],
             phase |-> "req", error |-> NULL])]
    /\ UNCHANGED <<votingFrame, tournaments, session, toast, isVotingLive>>

\* handleToggleVoting up to its await; the item is disabled while toggling
VotingHandleToggle(c) ==
    /\ IsCaptainVoting(c)
    /\ ~isTogglingVoting[c]
    /\ isTogglingVoting' = [isTogglingVoting EXCEPT ![c] = TRUE]
    /\ votingReqs' = [votingReqs EXCEPT ![c] = Append(@,
            [value |-> VotingNewValue(isVotingLive[c]), wasLive |-> isVotingLive[c],
             phase |-> "req", error |-> NULL])]
    /\ UNCHANGED <<votingFrame, tournaments, session, toast, isVotingLive>>

\* the store executes the update of the tournament row, or the request fails
VotingStoreUpdate(c, i) ==
    /\ i \in 1..Len(votingReqs[c])
    /\ votingReqs[c][i].phase = "req"
    /\ LET q == votingReqs[c][i]
           tid == session[c].tournamentId
           answer(err) == [votingReqs EXCEPT ![c] =
                              ReplaceAt(@, i, [q EXCEPT !.phase = "resp", !.error = err])]
       IN
        \/ /\ votingReqs' = answer("network")
           /\ UNCHANGED tournaments
        \/ /\ votingReqs' = answer(NULL)
           /\ tournaments' =
                IF TournamentWritable(session[c].user, tid)
                THEN [tournaments EXCEPT ![tid].is_voting_live = q.value]
                ELSE tournaments
    /\ UNCHANGED <<votingFrame, session, toast, isVotingLive, isTogglingVoting>>

\* a handler that clears the flag after a success only
VotingToggleDone_NoFinally(c, i) ==
    /\ i \in 1..Len(votingReqs[c])
    /\ votingReqs[c][i].phase = "resp"
    /\ toast' = IF votingReqs[c][i].error = NULL
                THEN Toast(c, VotingToastTitle(votingReqs[c][i].wasLive))
                ELSE Toast(c, "Error: Failed to toggle voting.")
    /\ isTogglingVoting' = [isTogglingVoting EXCEPT ![c] = votingReqs[c][i].error # NULL]
    /\ votingReqs' = [votingReqs EXCEPT ![c] = RemoveAt(@, i)]
    /\ UNCHANGED <<votingFrame, tournaments, session, isVotingLive>>

\* handleToggleVoting after its await
VotingToggleDone(c, i) ==
    /\ i \in 1..Len(votingReqs[c])
    /\ votingReqs[c][i].phase = "resp"
    /\ toast' = IF votingReqs[c][i].error = NULL
                THEN Toast(c, VotingToastTitle(votingReqs[c][i].wasLive))
                ELSE Toast(c, "Error: Failed to toggle voting.")
    /\ isTogglingVoting' = [isTogglingVoting EXCEPT ![c] = FALSE]
    /\ votingReqs' = [votingReqs EXCEPT ![c] = RemoveAt(@, i)]
    /\ UNCHANGED <<votingFrame, tournaments, session, isVotingLive>>

\* The parent reloads the tournament and passes the stored flag down again
\* (onVotingToggle, or any other reload); it may also never do so.
ParentRefresh(c) ==
    /\ isVotingLive[c] # StoredTournament(c).is_voting_live
    /\ isVotingLive' = [isVotingLive EXCEPT ![c] = StoredTournament(c).is_voting_live]
    /\ UNCHANGED <<votingFrame, tournaments, session, toast, isTogglingVoting, votingReqs>>

\* ========================================================== CreateTeams
TeamsOf(tid) == {r \in teams : r.tournament_id = tid}

RECURSIVE ByCreatedAt(_)
\* .order("created_at", { ascending: true })
ByCreatedAt(rows) ==
    IF rows = {} THEN <<>>
    ELSE LET first == CHOOSE r \in rows : \A q \in rows : r.created_at <= q.created_at
         IN  <<first>> \o ByCreatedAt(rows \ {first})

\* What the organizer may type into the two inputs of the form.
TeamNameTexts == {<<"A">>, <<" ", "B", " ">>, <<" ">>}
TeamBudgetTexts == {<<"0">>, <<"-", "5">>, <<"2", ".", "5">>, <<"a">>, <<>>}

CanCreateMore_UpTo(c) == Len(ctTeams[c]) <= ctTournament[c][1].number_of_teams

\* canCreateMore = teams.length < tournament.number_of_teams
CanCreateMore(c) == Len(ctTeams[c]) < ctTournament[c][1].number_of_teams

\* What the page renders: the spinner while loading, "Tournament not found."
\* without a tournament, else the page with the form or the banner
\* "All {number_of_teams} teams have been created!".
CtView(c) ==
    IF ctLoading[c] THEN [kind |-> "spinner", form |-> FALSE, banner |-> FALSE, bannerN |-> 0]
    ELSE IF ctTournament[c] = <<>>
    THEN [kind |-> "not found", form |-> FALSE, banner |-> FALSE, bannerN |-> 0]
    ELSE [kind |-> "page", form |-> CanCreateMore(c), banner |-> ~CanCreateMore(c),
          bannerN |-> ctTournament[c][1].number_of_teams]

CtFormShown(c) == route[c] = "CreateTeams" /\ CtView(c).form

\* fetchTournamentAndTeams up to its first await
CtStartFetch(c) ==
    /\ ctLoading' = [ctLoading EXCEPT ![c] = TRUE]
    /\ ctFetches' = [ctFetches EXCEPT ![c] = Append(@,
            [phase |-> "tournament", data |-> <<>>, error |-> NULL])]

\* The client opens the page: fresh component state, then the effect fetches.
CtVisit(c) ==
    /\ route[c] # "CreateTeams"
    /\ route' = [route EXCEPT ![c] = "CreateTeams"]
    /\ ctTournament' = [ctTournament EXCEPT ![c] = <<>>]
    /\ ctTeams' = [ctTeams EXCEPT ![c] = <<>>]
    /\ creating' = [creating EXCEPT ![c] = FALSE]
    /\ teamName' = [teamName EXCEPT ![c] = <<>>]
    /\ teamBudget' = [teamBudget EXCEPT ![c] = <<>>]
    /\ selectedCaptain' = [selectedCaptain EXCEPT ![c] = <<>>]
    /\ searchModalOpen' = [searchModalOpen EXCEPT ![c] = FALSE]
    /\ searchMobile' = [searchMobile EXCEPT ![c] = <<>>]
    /\ searchResults' = [searchResults EXCEPT ![c] = <<>>]
    /\ searching' = [searching EXCEPT ![c] = FALSE]
    /\ CtStartFetch(c)
    /\ UNCHANGED <<teamsFrame, teams, nextId, session, toast, ctCreates, ctSearches>>

\* the store answers the tournament query (.eq("id", tournamentId).single())
CtStoreTournament(c, i) ==
    /\ i \in 1..Len(ctFetches[c])
    /\ ctFetches[c][i].phase = "tournament"
    /\ LET tid == session[c].tournamentId
           answer(data, err) == [ctFetches EXCEPT ![c] = ReplaceAt(@, i,
                [phase |-> "tournament-resp", data |-> data, error |-> err])]
       IN
        \/ ctFetches' = answer(<<>>, "network")
        \/ ctFetches' =
            IF tid \in DOMAIN tournaments
            THEN answer(<<[id |-> tid,
                           number_of_teams |-> tournaments[tid].number_of_teams,
                           team_budget |-> tournaments[tid].team_budget,
                           organizer_id |-> tournaments[tid].organizer_id]>>, NULL)
            ELSE answer(<<>>, "PGRST116")
    /\ UNCHANGED <<teamsFrame, searchVars, teams, nextId, session, toast, route, ctTournament, ctTeams,
                   ctLoading, creating, teamName, teamBudget, selectedCaptain, ctCreates>>

\* fetchTournamentAndTeams from the tournament's answer to the teams query
CtTournamentDone(c, i) ==
    /\ i \in 1..Len(ctFetches[c])
    /\ ctFetches[c][i].phase = "tournament-resp"
    /\ LET f == ctFetches[c][i]
           stop(title, to) ==
                /\ toast' = Toast(c, title)
                /\ route' = [route EXCEPT ![c] = to]
                /\ ctLoading' = [ctLoading EXCEPT ![c] = FALSE]
                /\ ctFetches' = [ctFetches EXCEPT ![c] = RemoveAt(@, i)]
                /\ UNCHANGED <<ctTournament, teamBudget>>
       IN
        IF f.error # NULL THEN stop("Error: Failed to load tournament data.", route[c])
        ELSE IF f.data = <<>> THEN stop("Error: Tournament not found.", "/tournaments")
        ELSE IF session[c].user # NULL /\ f.data[1].organizer_id # session[c].user
        THEN stop("Access Denied", "/tournaments/:id")
        ELSE /\ ctTournament' = [ctTournament EXCEPT ![c] = f.data]
             /\ teamBudget' = [teamBudget EXCEPT ![c] = ToString(f.data[1].team_budget)]
             /\ ctFetches' = [ctFetches EXCEPT ![c] = ReplaceAt(@, i,
                    [phase |-> "teams", data |-> <<>>, error |-> NULL])]
             /\ UNCHANGED <<toast, route, ctLoading>>
    /\ UNCHANGED <<teamsFrame, searchVars, teams, nextId, session, ctTeams, creating, teamName,
                   selectedCaptain, ctCreates>>

\* the store answers the teams query
CtStoreTeams(c, i) ==
    /\ i \in 1..Len(ctFetches[c])
    /\ ctFetches[c][i].phase = "teams"
    /\ \E answer \in {[phase |-> "teams-resp", data |-> <<>>, error |-> "network"],
                      [phase |-> "teams-resp",
                       data |-> ByCreatedAt(TeamsOf(session[c].tournamentId)),
                       error |-> NULL]} :
        ctFetches' = [ctFetches EXCEPT ![c] = ReplaceAt(@, i, answer)]
    /\ UNCHANGED <<teamsFrame, searchVars, teams, nextId, session, toast, route, ctTournament, ctTeams,
                   ctLoading, creating, teamName, teamBudget, selectedCaptain, ctCreates>>

\* fetchTournamentAndTeams from the teams' answer to its end
CtTeamsDone(c, i) ==
    /\ i \in 1..Len(ctFetches[c])
    /\ ctFetches[c][i].phase = "teams-resp"
    /\ IF ctFetches[c][i].error # NULL
       THEN /\ toast' = Toast(c, "Error: Failed to load tournament data.")
            /\ UNCHANGED ctTeams
       ELSE /\ ctTeams' = [ctTeams EXCEPT ![c] = ctFetches[c][i].data]
            /\ UNCHANGED toast
    /\ ctLoading' = [ctLoading EXCEPT ![c] = FALSE]
    /\ ctFetches' = [ctFetches EXCEPT ![c] = RemoveAt(@, i)]
    /\ UNCHANGED <<teamsFrame, searchVars, teams, nextId, session, route, ctTournament, creating,
                   teamName, teamBudget, selectedCaptain, ctCreates>>

CtSetTeamName(c, text) ==
    /\ CtFormShown(c)
    /\ teamName[c] # text
    /\ teamName' = [teamName EXCEPT ![c] = text]
    /\ UNCHANGED <<teamsFrame, searchVars, teams, nextId, session, toast, route, ctTournament, ctTeams,
                   ctLoading, creating, teamBudget, selectedCaptain, ctFetches, ctCreates>>

CtSetTeamBudget(c, text) ==
    /\ CtFormShown(c)
    /\ teamBudget[c] # text
    /\ teamBudget' = [teamBudget EXCEPT ![c] = text]
    /\ UNCHANGED <<teamsFrame, searchVars, teams, nextId, session, toast, route, ctTournament, ctTeams,
                   ctLoading, creating, teamName, selectedCaptain, ctFetches, ctCreates>>

\* !teamBudget || parseFloat(teamBudget) <= 0
TeamBudgetRejected(text) == text = <<>> \/ FloatLeqZero(ParseFloat(text))

\* handleCreateTeam up to its await; the button is disabled while creating
CtHandleCreateTeam(c) ==
    /\ CtFormShown(c)
    /\ ~creating[c]
    /\ IF Trim(teamName[c]) = <<>>
       THEN /\ toast' = Toast(c, "Validation Error: Team name is required.")
            /\ UNCHANGED <<creating, ctCreates>>
       ELSE IF TeamBudgetRejected(teamBudget[c])
       THEN /\ toast' = Toast(c, "Validation Error: Please enter a valid team budget.")
            /\ UNCHANGED <<creating, ctCreates>>
       ELSE /\ creating' = [creating EXCEPT ![c] = TRUE]
            /\ ctCreates' = [ctCreates EXCEPT ![c] = Append(@,
                    [row |-> [tournament_id |-> session[c].tournamentId,
                              name |-> Trim(teamName[c]),
                              captain_id |-> IF selectedCaptain[c] = <<>> THEN NULL
                                            ELSE selectedCaptain[c][1].user_id,
                              budget_remaining |-> ParseFloat(teamBudget[c]),
                              owner_id |-> session[c].user],
                     phase |-> "req", error |-> NULL])]
            /\ UNCHANGED toast
    /\ UNCHANGED <<teamsFrame, searchVars, teams, nextId, session, route, ctTournament, ctTeams,
                   ctLoading, teamName, teamBudget, selectedCaptain, ctFetches>>

\* the store executes the insert into teams, or the request fails
CtStoreInsert(c, i) ==
    /\ i \in 1..Len(ctCreates[c])
    /\ ctCreates[c][i].phase = "req"
    /\ LET q == ctCreates[c][i]
           answer(err) == [ctCreates EXCEPT ![c] =
                              ReplaceAt(@, i, [q EXCEPT !.phase = "resp", !.error = err])]
       IN
        \/ /\ ctCreates' = answer("network")
           /\ UNCHANGED <<teams, nextId>>
        \/ /\ ctCreates' = answer(NULL)
           /\ teams' = teams \cup {[id |-> nextId + 1,
                                    tournament_id |-> q.row.tournament_id,
                                    name |-> q.row.name,
                                    captain_id |-> q.row.captain_id,
                                    budget_remaining |-> q.row.budget_remaining,
                                    owner_id |-> q.row.owner_id,
                                    created_at |-> nextId + 1]}
           /\ nextId' = nextId + 1
    /\ UNCHANGED <<teamsFrame, searchVars, session, toast, route, ctTournament, ctTeams, ctLoading,
                   creating, teamName, teamBudget, selectedCaptain, ctFetches>>

\* handleCreateTeam after its await: on success the form is reset and the
\* tournament and its teams are fetched again
CtCreateDone(c, i) ==
    /\ i \in 1..Len(ctCreates[c])
    /\ ctCreates[c][i].phase = "resp"
    /\ IF ctCreates[c][i].error = NULL
       THEN /\ toast' = Toast(c, "Success: Team created successfully.")
            /\ teamName' = [teamName EXCEPT ![c] = <<>>]
            /\ selectedCaptain' = [selectedCaptain EXCEPT ![c] = <<>>]
            /\ teamBudget' = [teamBudget EXCEPT ![c] =
                    IF ctTournament[c] # <<>>
                    THEN ToString(ctTournament[c][1].team_budget) ELSE <<>>]
            /\ CtStartFetch(c)
       ELSE /\ toast' = Toast(c, "Error: Failed to create team.")
            /\ UNCHANGED <<teamName, selectedCaptain, teamBudget, ctLoading, ctFetches>>
    /\ creating' = [creating EXCEPT ![c] = FALSE]
    /\ ctCreates' = [ctCreates EXCEPT ![c] = RemoveAt(@, i)]
    /\ UNCHANGED <<teamsFrame, searchVars, teams, nextId, session, route, ctTournament, ctTeams>>

\* --------------------------------------------- captain search (CreateTeams)
\* The profiles the store holds: a registered player, a profile of the same
\* mobile number that is not a registered player, and a registered player of
\* another number.
StoredProfiles ==
    {[id |-> "p1", user_id |-> "u1", full_name |-> "P1",
      mobile |-> <<"9", "8", "7", "6", "5", "4", "3", "2", "1", "0">>, is_player_registered |-> TRUE],
     [id |-> "p2", user_id |-> "u2", full_name |-> "P2",
      mobile |-> <<"9", "8", "7", "6", "5", "4", "3", "2", "1", "0">>, is_player_registered |-> FALSE],
     [id |-> "p3", user_id |-> "u3", full_name |-> "P3",
      mobile |-> <<"9", "1", "2", "3", "4", "5", "6", "7", "8", "0">>, is_player_registered |-> TRUE]}

\* What the organizer may type into the search field.
SearchMobileTexts == {<<"9", "8", "7", "6", "5", "4", "3", "2", "1", "0">>,
                      <<"9", "1", "2", "3", "4", "5", "6", "7", "8", "0">>,
                      <<"9", "8", "7", "6", "5", "4", "3", "2", "1">>}

searchFrame == <<tables, profiles, nextId, session, route, timerVars, timerScenario,
                 control, votingVars, catVars, votesVars, captainsVars, ctTournament,
                 ctTeams, ctLoading, creating, teamName, teamBudget, ctFetches, ctCreates>>

\* The same query without its filter on is_player_registered.
ProfilesMatching_AnyRegistration(mobile) ==
    {[id |-> p.id, user_id |-> p.user_id, full_name |-> p.full_name, mobile |-> p.mobile] :
        p \in {q \in profiles : q.mobile = mobile}}

\* .select("id, user_id, full_name, mobile").eq("mobile", searchMobile)
\* .eq("is_player_registered", true)
ProfilesMatching(mobile) ==
    {[id |-> p.id, user_id |-> p.user_id, full_name |-> p.full_name, mobile |-> p.mobile] :
        p \in {q \in profiles : q.mobile = mobile /\ q.is_player_registered}}

\* The rows of a result in some order (the query has no order clause).
RowOrders(rows) ==
    {f \in [1..Cardinality(rows) -> rows] : \A i, j \in DOMAIN f : i # j => f[i] # f[j]}

\* The search dialog is part of the loaded page and shows while it is open.
CtDialogShown(c) ==
    route[c] = "CreateTeams" /\ CtView(c).kind = "page" /\ searchModalOpen[c]

\* the Search button next to the captain field / closing the dialog
CtSetSearchModalOpen(c, open) ==
    /\ IF open THEN CtFormShown(c) ELSE CtDialogShown(c)
    /\ searchModalOpen[c] # open
    /\ searchModalOpen' = [searchModalOpen EXCEPT ![c] = open]
    /\ UNCHANGED <<searchFrame, toast, selectedCaptain, searchMobile, searchResults,
                   searching, ctSearches>>

CtSetSearchMobile(c, text) ==
    /\ CtDialogShown(c)
    /\ searchMobile[c] # text
    /\ searchMobile' = [searchMobile EXCEPT ![c] = text]
    /\ UNCHANGED <<searchFrame, toast, selectedCaptain, searchModalOpen, searchResults,
                   searching, ctSearches>>

\* handleSearchCaptain up to its await; the button is disabled while searching
CtHandleSearchCaptain(c) ==
    /\ CtDialogShown(c)
    /\ ~searching[c]
    /\ IF searchMobile[c] = <<>> \/ Len(searchMobile[c]) < 10
       THEN /\ toast' = Toast(c, "Validation Error")
            /\ UNCHANGED <<searching, ctSearches>>
       ELSE /\ searching' = [searching EXCEPT ![c] = TRUE]
            /\ ctSearches' = [ctSearches EXCEPT ![c] = Append(@,
                    [mobile |-> searchMobile[c], phase |-> "req", data |-> <<>>,
                     error |-> NULL])]
            /\ UNCHANGED toast
    /\ UNCHANGED <<searchFrame, selectedCaptain, searchModalOpen, searchMobile, searchResults>>

\* the store answers the profiles query, or the request fails
CtStoreSearch(c, i) ==
    /\ i \in 1..Len(ctSearches[c])
    /\ ctSearches[c][i].phase = "req"
    /\ LET q == ctSearches[c][i]
           answer(data, err) == [ctSearches EXCEPT ![c] = ReplaceAt(@, i,
                [q EXCEPT !.phase = "resp", !.data = data, !.error = err])]
       IN
        \/ ctSearches' = answer(<<>>, "network")
        \/ \E rows \in RowOrders(ProfilesMatching(q.mobile)) :
                ctSearches' = answer(rows, NULL)
    /\ UNCHANGED <<searchFrame, toast, selectedCaptain, searchModalOpen, searchMobile,
                   searchResults, searching>>

\* handleSearchCaptain after its await
CtSearchDone(c, i) ==
    /\ i \in 1..Len(ctSearches[c])
    /\ ctSearches[c][i].phase = "resp"
    /\ LET q == ctSearches[c][i] IN
        IF q.error # NULL
        THEN /\ toast' = Toast(c, "Error: Failed to search players.")
             /\ UNCHANGED searchResults
        ELSE /\ searchResults' = [searchResults EXCEPT ![c] = q.data]
             /\ toast' = IF q.data = <<>> THEN Toast(c, "No Results") ELSE toast
    /\ searching' = [searching EXCEPT ![c] = FALSE]
    /\ ctSearches' = [ctSearches EXCEPT ![c] = RemoveAt(@, i)]
    /\ UNCHANGED <<searchFrame, selectedCaptain, searchModalOpen, searchMobile>>

\* handleSelectCaptain: the Select button of a listed player
CtHandleSelectCaptain(c, k) ==
    /\ CtDialogShown(c)
    /\ k \in 1..Len(searchResults[c])
    /\ selectedCaptain' = [selectedCaptain EXCEPT ![c] = <<searchResults[c][k]>>]
    /\ searchModalOpen' = [searchModalOpen EXCEPT ![c] = FALSE]
    /\ searchMobile' = [searchMobile EXCEPT ![c] = <<>>]
    /\ searchResults' = [searchResults EXCEPT ![c] = <<>>]
    /\ UNCHANGED <<searchFrame, toast, searching, ctSearches>>

\* ================================================== CategoryConfigModal
\* The categories the select offers (two of CATEGORY_OPTIONS).
CategoryOptions == {"Gold", "Silver"}
\* What the organizer may type into the two number inputs.
MaxPlayersTexts == {<<"2">>}
BasePriceTexts == {<<"2", ".", "5">>}

\* .eq("tournament_id", tournamentId).eq("is_active", true)
\* Trigger update_auction_config_updated_at, BEFORE UPDATE FOR EACH ROW: every
\* update of a row, whatever it writes, sets updated_at to the time of the
\* update. Times are counted in updates of the row since its insert, up to
\* MaxTouches.
Touched(r) == IF r.updated_at < MaxTouches THEN r.updated_at + 1 ELSE r.updated_at

\* The rows of a table without their updated_at.
WithoutUpdatedAt(table) ==
    {[id |-> r.id, tournament_id |-> r.tournament_id, category |-> r.category,
      max_players |-> r.max_players, base_price |-> r.base_price,
      created_at |-> r.created_at, is_active |-> r.is_active] : r \in table}

\* select("*") where tournament_id = tid and is_active: the modal reads id,
\* category, max_players and base_price of a row (interface AuctionConfig) and
\* has the rows ordered by created_at; updated_at comes along unread and is
\* left out of the listing.
ConfigsListed(tid) ==
    {r \in WithoutUpdatedAt(auction_config) : r.tournament_id = tid /\ r.is_active}

\* The insert under a unique index on (tournament_id, category) of active rows.
ConfigInsertError_UniqueCategory(caller, row) ==
    IF row.tournament_id \notin DOMAIN tournaments THEN "foreign_key"
    ELSE IF ~IsOrganizer(caller, row.tournament_id) THEN "rls"
    ELSE IF row.max_players.isNaN \/ row.base_price.isNaN THEN "not_null"
    ELSE IF \E r \in auction_config : /\ r.tournament_id = row.tournament_id
                                      /\ r.category = row.category /\ r.is_active
    THEN "unique"
    ELSE NULL

\* insert into auction_config: the error the store answers with, or NULL
\* (a NaN is sent as null, and max_players and base_price are NOT NULL)
ConfigInsertError(caller, row) ==
    IF row.tournament_id \notin DOMAIN tournaments THEN "foreign_key"
    ELSE IF ~IsOrganizer(caller, row.tournament_id) THEN "rls"
    ELSE IF row.max_players.isNaN \/ row.base_price.isNaN THEN "not_null"
    ELSE NULL

ConfigInsert(row) ==
    auction_config \cup {[id |-> nextId + 1, tournament_id |-> row.tournament_id,
                          category |-> row.category,
                          max_players |-> row.max_players.value,
                          base_price |-> row.base_price,
                          created_at |-> nextId + 1, updated_at |-> 0,
                          is_active |-> TRUE]}

\* update auction_config set category, max_players, base_price where id = rid:
\* rows the caller may not write are skipped without an error
ConfigUpdateError(caller, row) ==
    IF (row.max_players.isNaN \/ row.base_price.isNaN)
       /\ \E r \in auction_config : r.id = row.id /\ IsOrganizer(caller, r.tournament_id)
    THEN "not_null" ELSE NULL

\* An update that also sets is_active to true.
ConfigUpdate_Reactivating(caller, row) ==
    {IF r.id = row.id /\ IsOrganizer(caller, r.tournament_id)
         THEN [r EXCEPT !.category = row.category,
                        !.max_players = row.max_players.value,
                        !.base_price = row.base_price,
                        !.is_active = TRUE,
                        !.updated_at = Touched(r)]
         ELSE r : r \in auction_config}

\* An update that leaves the category of the row as it is.
ConfigUpdate_KeepCategory(caller, row) ==
    {IF r.id = row.id /\ IsOrganizer(caller, r.tournament_id)
         THEN [r EXCEPT !.max_players = row.max_players.value,
                        !.base_price = row.base_price,
                        !.updated_at = Touched(r)]
         ELSE r : r \in auction_config}

ConfigUpdate(caller, row) ==
    {IF r.id = row.id /\ IsOrganizer(caller, r.tournament_id)
         THEN [r EXCEPT !.category = row.category,
                        !.max_players = row.max_players.value,
                        !.base_price = row.base_price,
                        !.updated_at = Touched(r)]
         ELSE r : r \in auction_config}

ConfigSoftDelete_Remove(caller, rid) ==
    {r \in auction_config : ~(r.id = rid /\ IsOrganizer(caller, r.tournament_id))}

\* update auction_config set is_active = false where id = rid
ConfigSoftDelete(caller, rid) ==
    {IF r.id = rid /\ IsOrganizer(caller, r.tournament_id)
         THEN [r EXCEPT !.is_active = FALSE, !.updated_at = Touched(r)]
         ELSE r : r \in auction_config}

\* Requests of the modal of client c that are not yet handled.
CatInFlight(c) == Len(catFetches[c]) + Len(catSaves[c]) + Len(catDeletes[c])

\* fetchConfigs up to its await
CatStartFetch(c) ==
    /\ catLoading' = [catLoading EXCEPT ![c] = TRUE]
    /\ catFetches' = [catFetches EXCEPT ![c] = Append(@,
            [phase |-> "req", data |-> <<>>, error |-> NULL])]

\* The parent opens the dialog; the effect calls fetchConfigs.
CatOpenModal(c) ==
    /\ ~catOpen[c]
    /\ catOpen' = [catOpen EXCEPT ![c] = TRUE]
    /\ CatStartFetch(c)
    /\ UNCHANGED <<catFrame, auction_config, nextId, session, toast, configs, catSaving,
                   editingId, category, maxPlayers, basePrice, catSaves, catDeletes>>

\* dismissing the dialog: onOpenChange(false)
CatCloseModal(c) ==
    /\ catOpen[c]
    /\ catOpen' = [catOpen EXCEPT ![c] = FALSE]
    /\ UNCHANGED <<catFrame, auction_config, nextId, session, toast, configs, catLoading,
                   catSaving, editingId, category, maxPlayers, basePrice, catFetches, catSaves,
                   catDeletes>>

\* the store answers the listing query, or the request fails
CatStoreFetch(c, i) ==
    /\ i \in 1..Len(catFetches[c])
    /\ catFetches[c][i].phase = "req"
    /\ \E answer \in {[phase |-> "resp", data |-> <<>>, error |-> "network"],
                      [phase |-> "resp",
                       data |-> ByCreatedAt(ConfigsListed(session[c].tournamentId)),
                       error |-> NULL]} :
        catFetches' = [catFetches EXCEPT ![c] = ReplaceAt(@, i, answer)]
    /\ UNCHANGED <<catFrame, auction_config, nextId, session, toast, catOpen, configs,
                   catLoading, catSaving, editingId, category, maxPlayers, basePrice, catSaves,
                   catDeletes>>

\* fetchConfigs after its await
CatFetchDone(c, i) ==
    /\ i \in 1..Len(catFetches[c])
    /\ catFetches[c][i].phase = "resp"
    /\ IF catFetches[c][i].error # NULL
       THEN /\ toast' = Toast(c, "Error: Failed to load category config.")
            /\ UNCHANGED configs
       ELSE /\ configs' = [configs EXCEPT ![c] = catFetches[c][i].data]
            /\ UNCHANGED toast
    /\ catLoading' = [catLoading EXCEPT ![c] = FALSE]
    /\ catFetches' = [catFetches EXCEPT ![c] = RemoveAt(@, i)]
    /\ UNCHANGED <<catFrame, auction_config, nextId, session, catOpen, catSaving, editingId,
                   category, maxPlayers, basePrice, catSaves, catDeletes>>

CatSetCategory(c, cat) ==
    /\ catOpen[c]
    /\ category[c] # cat
    /\ category' = [category EXCEPT ![c] = cat]
    /\ UNCHANGED <<catFrame, auction_config, nextId, session, toast, catOpen, configs,
                   catLoading, catSaving, editingId, maxPlayers, basePrice, catFetches, catSaves,
                   catDeletes>>

CatSetMaxPlayers(c, text) ==
    /\ catOpen[c]
    /\ maxPlayers[c] # text
    /\ maxPlayers' = [maxPlayers EXCEPT ![c] = text]
    /\ UNCHANGED <<catFrame, auction_config, nextId, session, toast, catOpen, configs,
                   catLoading, catSaving, editingId, category, basePrice, catFetches, catSaves,
                   catDeletes>>

CatSetBasePrice(c, text) ==
    /\ catOpen[c]
    /\ basePrice[c] # text
    /\ basePrice' = [basePrice EXCEPT ![c] = text]
    /\ UNCHANGED <<catFrame, auction_config, nextId, session, toast, catOpen, configs,
                   catLoading, catSaving, editingId, category, maxPlayers, catFetches, catSaves,
                   catDeletes>>

\* resetForm
CatFormReset(c) ==
    /\ category' = [category EXCEPT ![c] = NULL]
    /\ maxPlayers' = [maxPlayers EXCEPT ![c] = <<>>]
    /\ basePrice' = [basePrice EXCEPT ![c] = <<>>]
    /\ editingId' = [editingId EXCEPT ![c] = NoId]

\* the Cancel button, shown in edit mode
CatResetForm(c) ==
    /\ catOpen[c]
    /\ editingId[c] # NoId
    /\ CatFormReset(c)
    /\ UNCHANGED <<catFrame, auction_config, nextId, session, toast, catOpen, configs,
                   catLoading, catSaving, catFetches, catSaves, catDeletes>>

\* handleEdit of the i-th row of the table
CatHandleEdit(c, i) ==
    /\ catOpen[c]
    /\ ~catLoading[c]
    /\ i \in 1..Len(configs[c])
    /\ category' = [category EXCEPT ![c] = configs[c][i].category]
    /\ maxPlayers' = [maxPlayers EXCEPT ![c] = ToString(configs[c][i].max_players)]
    /\ basePrice' = [basePrice EXCEPT ![c] = FloatToString(configs[c][i].base_price)]
    /\ editingId' = [editingId EXCEPT ![c] = configs[c][i].id]
    /\ UNCHANGED <<catFrame, auction_config, nextId, session, toast, catOpen, configs,
                   catLoading, catSaving, catFetches, catSaves, catDeletes>>

\* a check of the category alone
CatFormIncomplete_CategoryOnly(c) == category[c] = NULL

\* !category || !maxPlayers || !basePrice
CatFormIncomplete(c) == category[c] = NULL \/ maxPlayers[c] = <<>> \/ basePrice[c] = <<>>

\* handleSubmit up to its await; the button is disabled while saving
CatHandleSubmit(c) ==
    /\ catOpen[c]
    /\ ~catSaving[c]
    /\ IF CatFormIncomplete(c)
       THEN /\ toast' = Toast(c, "Validation Error")
            /\ UNCHANGED <<catSaving, catSaves>>
       ELSE /\ catSaving' = [catSaving EXCEPT ![c] = TRUE]
            /\ catSaves' = [catSaves EXCEPT ![c] = Append(@,
                    [kind |-> IF editingId[c] # NoId THEN "update" ELSE "insert",
                     row |-> [id |-> editingId[c],
                              tournament_id |-> session[c].tournamentId,
                              category |-> category[c],
                              max_players |-> ParseInt(maxPlayers[c]),
                              base_price |-> ParseFloat(basePrice[c])],
                     phase |-> "req", error |-> NULL])]
            /\ UNCHANGED toast
    /\ UNCHANGED <<catFrame, auction_config, nextId, session, catOpen, configs, catLoading,
                   editingId, category, maxPlayers, basePrice, catFetches, catDeletes>>

\* the store executes the update or the insert, or the request fails
CatStoreSave(c, i) ==
    /\ i \in 1..Len(catSaves[c])
    /\ catSaves[c][i].phase = "req"
    /\ LET q == catSaves[c][i]
           caller == session[c].user
           err == IF q.kind = "update" THEN ConfigUpdateError(caller, q.row)
                  ELSE ConfigInsertError(caller, q.row)
           answer(e) == [catSaves EXCEPT ![c] =
                            ReplaceAt(@, i, [q EXCEPT !.phase = "resp", !.error = e])]
       IN
        \/ /\ catSaves' = answer("network")
           /\ UNCHANGED <<auction_config, nextId>>
        \/ /\ catSaves' = answer(err)
           /\ IF err # NULL THEN UNCHANGED <<auction_config, nextId>>
              ELSE IF q.kind = "update"
              THEN /\ auction_config' = ConfigUpdate(caller, q.row)
                   /\ UNCHANGED nextId
              ELSE /\ auction_config' = ConfigInsert(q.row)
                   /\ nextId' = nextId + 1
    /\ UNCHANGED <<catFrame, session, toast, catOpen, configs, catLoading, catSaving, editingId,
                   category, maxPlayers, basePrice, catFetches, catDeletes>>

\* handleSubmit after its await
CatSaveDone(c, i) ==
    /\ i \in 1..Len(catSaves[c])
    /\ catSaves[c][i].phase = "resp"
    /\ IF catSaves[c][i].error = NULL
       THEN /\ toast' = Toast(c, IF catSaves[c][i].kind = "update"
                                 THEN "Success: Category updated."
                                 ELSE "Success: Category added.")
            /\ CatFormReset(c)
            /\ CatStartFetch(c)
       ELSE /\ toast' = Toast(c, "Error: Failed to save category.")
            /\ UNCHANGED <<category, maxPlayers, basePrice, editingId, catLoading,
                           catFetches>>
    /\ catSaving' = [catSaving EXCEPT ![c] = FALSE]
    /\ catSaves' = [catSaves EXCEPT ![c] = RemoveAt(@, i)]
    /\ UNCHANGED <<catFrame, auction_config, nextId, session, catOpen, configs, catDeletes>>

\* handleDelete of the i-th row of the table, up to its await
CatHandleDelete_Twice(c, i) ==
    /\ catOpen[c]
    /\ ~catLoading[c]
    /\ i \in 1..Len(configs[c])
    /\ catDeletes' = [catDeletes EXCEPT ![c] = Append(Append(@,
            [id |-> configs[c][i].id, phase |-> "req", error |-> NULL]),
            [id |-> configs[c][i].id, phase |-> "req", error |-> NULL])]
    /\ UNCHANGED <<catFrame, auction_config, nextId, session, toast, catOpen, configs,
                   catLoading, catSaving, editingId, category, maxPlayers, basePrice, catFetches,
                   catSaves>>

\* handleDelete up to its await
CatHandleDelete(c, i) ==
    /\ catOpen[c]
    /\ ~catLoading[c]
    /\ i \in 1..Len(configs[c])
    /\ catDeletes' = [catDeletes EXCEPT ![c] = Append(@,
            [id |-> configs[c][i].id, phase |-> "req", error |-> NULL])]
    /\ UNCHANGED <<catFrame, auction_config, nextId, session, toast, catOpen, configs,
                   catLoading, catSaving, editingId, category, maxPlayers, basePrice, catFetches,
                   catSaves>>

\* the store executes the update of is_active, or the request fails
CatStoreDelete(c, i) ==
    /\ i \in 1..Len(catDeletes[c])
    /\ catDeletes[c][i].phase = "req"
    /\ LET q == catDeletes[c][i]
           answer(e) == [catDeletes EXCEPT ![c] =
                            ReplaceAt(@, i, [q EXCEPT !.phase = "resp", !.error = e])]
       IN
        \/ /\ catDeletes' = answer("network")
           /\ UNCHANGED auction_config
        \/ /\ catDeletes' = answer(NULL)
           /\ auction_config' = ConfigSoftDelete(session[c].user, q.id)
    /\ UNCHANGED <<catFrame, nextId, session, toast, catOpen, configs, catLoading, catSaving,
                   editingId, category, maxPlayers, basePrice, catFetches, catSaves>>

\* handleDelete after its await
CatDeleteDone(c, i) ==
    /\ i \in 1..Len(catDeletes[c])
    /\ catDeletes[c][i].phase = "resp"
    /\ IF catDeletes[c][i].error = NULL
       THEN /\ toast' = Toast(c, "Success: Category deleted.")
            /\ CatStartFetch(c)
       ELSE /\ toast' = Toast(c, "Error: Failed to delete category.")
            /\ UNCHANGED <<catLoading, catFetches>>
    /\ catDeletes' = [catDeletes EXCEPT ![c] = RemoveAt(@, i)]
    /\ UNCHANGED <<catFrame, auction_config, nextId, session, catOpen, configs, catSaving,
                   editingId, category, maxPlayers, basePrice, catSaves>>

\* ===================================================== ViewCaptainVotes
RECURSIVE Permutations(_)
Permutations(rows) ==
    IF rows = {} THEN {<<>>}
    ELSE UNION {{<<r>> \o rest : rest \in Permutations(rows \ {r})} : r \in rows}

\* .eq("tournament_id", tournamentId).eq("is_active", true)
CaptainsListed(tid) ==
    {r \in tournament_captain : r.tournament_id = tid /\ r.is_active}

VotesInOrder_Ascending(a, b) == a.votes <= b.votes

\* .order("votes", { ascending: false }): a may come before b
VotesInOrder(a, b) == a.votes >= b.votes

\* The answers the store may give to the captains query: the listed rows in
\* any arrangement the order allows (rows with equal votes in any order).
CaptainsAnswers(tid) ==
    {p \in Permutations(CaptainsListed(tid)) :
        \A i \in 1..(Len(p) - 1) : VotesInOrder(p[i], p[i + 1])}

RECURSIVE MaxOf(_)
\* Math.max(...) of one or more numbers
MaxOf(ns) == IF Len(ns) = 1 THEN ns[1]
             ELSE IF ns[1] >= MaxOf(Tail(ns)) THEN ns[1] ELSE MaxOf(Tail(ns))

VotesOf(list) == [i \in 1..Len(list) |-> list[i].votes]

MaxVotesOf_NoFloor(list) == IF Len(list) > 0 THEN MaxOf(VotesOf(list)) ELSE 1

\* captains.length > 0 ? Math.max(...captains.map((c) => c.votes), 1) : 1
MaxVotesOf(list) == IF Len(list) > 0 THEN MaxOf(VotesOf(list) \o <<1>>) ELSE 1

\* captains.reduce((sum, c) => sum + c.votes, 0)
TotalVotesOf(list) == SeqSum(VotesOf(list))

\* (captain.votes / maxVotes) * 100, kept as the fraction hundredfold / by;
\* a division by zero gives no number between 0 and 100 (NaN or Infinity).
ProgressValue(votes, max) ==
    [defined |-> max # 0, hundredfold |-> votes * 100, by |-> max]

maxVotes(c) == MaxVotesOf(captains[c])
totalVotes(c) == TotalVotesOf(captains[c])

\* fetchData up to its first await
VcStartFetch(c) ==
    /\ vcLoading' = [vcLoading EXCEPT ![c] = TRUE]
    /\ vcFetches' = [vcFetches EXCEPT ![c] = Append(@,
            [phase |-> "tournament", data |-> <<>>, error |-> NULL])]

\* The client opens the page: fresh component state, then the effect fetches.
VcVisit(c) ==
    /\ route[c] # "ViewCaptainVotes"
    /\ route' = [route EXCEPT ![c] = "ViewCaptainVotes"]
    /\ vcTournament' = [vcTournament EXCEPT ![c] = <<>>]
    /\ captains' = [captains EXCEPT ![c] = <<>>]
    /\ VcStartFetch(c)
    /\ UNCHANGED <<votesFrame, session, toast>>

\* The back link of the rendered page.
VcLeave(c) ==
    /\ route[c] = "ViewCaptainVotes"
    /\ ~vcLoading[c]
    /\ route' = [route EXCEPT ![c] = "/tournaments/:id"]
    /\ UNCHANGED <<votesFrame, session, toast, votesVars>>

\* the store answers the tournament query (.single())
VcStoreTournament(c, i) ==
    /\ i \in 1..Len(vcFetches[c])
    /\ vcFetches[c][i].phase = "tournament"
    /\ LET tid == session[c].tournamentId
           answer(data, err) == [vcFetches EXCEPT ![c] = ReplaceAt(@, i,
                [phase |-> "tournament-resp", data |-> data, error |-> err])]
       IN
        \/ vcFetches' = answer(<<>>, "network")
        \/ vcFetches' = IF tid \in DOMAIN tournaments
                        THEN answer(<<[id |-> tid]>>, NULL)
                        ELSE answer(<<>>, "PGRST116")
    /\ UNCHANGED <<votesFrame, session, toast, route, vcTournament, captains, vcLoading>>

\* fetchData from the tournament's answer to the captains query
VcTournamentDone(c, i) ==
    /\ i \in 1..Len(vcFetches[c])
    /\ vcFetches[c][i].phase = "tournament-resp"
    /\ IF vcFetches[c][i].error # NULL
       THEN /\ toast' = Toast(c, "Error: Failed to load voting data.")
            /\ vcLoading' = [vcLoading EXCEPT ![c] = FALSE]
            /\ vcFetches' = [vcFetches EXCEPT ![c] = RemoveAt(@, i)]
            /\ UNCHANGED vcTournament
       ELSE /\ vcTournament' = [vcTournament EXCEPT ![c] = vcFetches[c][i].data]
            /\ vcFetches' = [vcFetches EXCEPT ![c] = ReplaceAt(@, i,
                    [phase |-> "captains", data |-> <<>>, error |-> NULL])]
            /\ UNCHANGED <<toast, vcLoading>>
    /\ UNCHANGED <<votesFrame, session, route, captains>>

\* the store answers the captains query
VcStoreCaptains(c, i) ==
    /\ i \in 1..Len(vcFetches[c])
    /\ vcFetches[c][i].phase = "captains"
    /\ \/ vcFetches' = [vcFetches EXCEPT ![c] = ReplaceAt(@, i,
                [phase |-> "captains-resp", data |-> <<>>, error |-> "network"])]
       \/ \E list \in CaptainsAnswers(session[c].tournamentId) :
            vcFetches' = [vcFetches EXCEPT ![c] = ReplaceAt(@, i,
                [phase |-> "captains-resp", data |-> list, error |-> NULL])]
    /\ UNCHANGED <<votesFrame, session, toast, route, vcTournament, captains, vcLoading>>

\* fetchData from the captains' answer to its end
VcCaptainsDone(c, i) ==
    /\ i \in 1..Len(vcFetches[c])
    /\ vcFetches[c][i].phase = "captains-resp"
    /\ IF vcFetches[c][i].error # NULL
       THEN /\ toast' = Toast(c, "Error: Failed to load voting data.")
            /\ UNCHANGED captains
       ELSE /\ captains' = [captains EXCEPT ![c] = vcFetches[c][i].data]
            /\ UNCHANGED toast
    /\ vcLoading' = [vcLoading EXCEPT ![c] = FALSE]
    /\ vcFetches' = [vcFetches EXCEPT ![c] = RemoveAt(@, i)]
    /\ UNCHANGED <<votesFrame, session, route, vcTournament>>

\* ============================================== removal of a tournament
\* a delete that leaves the referencing rows behind
TournamentDelete_NoCascade(tid) ==
    /\ tid \in DOMAIN tournaments
    /\ tournaments' = [t \in DOMAIN tournaments \ {tid} |-> tournaments[t]]
    /\ UNCHANGED <<auction_config, auction_timer, tournament_captain>>
    /\ UNCHANGED <<teams, nextId, session, toast, route, timerVars, timerScenario, control, profiles, searchVars,
                   votingVars, catVars, teamsVars, votesVars, captainsVars>>

\* delete from tournaments where id = tid: the rows of auction_config,
\* auction_timer and tournament_captain that reference it go with it
\* (ON DELETE CASCADE).
TournamentDelete(tid) ==
    /\ tid \in DOMAIN tournaments
    /\ tournaments' = [t \in DOMAIN tournaments \ {tid} |-> tournaments[t]]
    /\ auction_config' = {r \in auction_config : r.tournament_id # tid}
    /\ auction_timer' = {r \in auction_timer : r.tournament_id # tid}
    /\ tournament_captain' = {r \in tournament_captain : r.tournament_id # tid}
    /\ UNCHANGED <<teams, nextId, session, toast, route, timerVars, timerScenario, control, profiles, searchVars,
                   votingVars, catVars, teamsVars, votesVars, captainsVars>>

\* ======================================================= CreateCaptains
\* What the organizer may type into the name and the mobile input.
CaptainNameTexts == {<<"A">>, <<" ">>}
CaptainMobileTexts == {<<"9", "8", "7", "6", "5", "4", "3", "2", "1", "0">>,
                       <<" ", " ", "9", "8", "7", "6", "5", "4", "3", "2">>,
                       <<"9", "8", "7", "6", "5", "4", "3", "2", "1">>,
                       <<" ">>}

RECURSIVE ByCreatedAtDesc(_)
\* .order("created_at", { ascending: false })
ByCreatedAtDesc(rows) ==
    IF rows = {} THEN <<>>
    ELSE LET first == CHOOSE r \in rows : \A q \in rows : r.created_at >= q.created_at
         IN  <<first>> \o ByCreatedAtDesc(rows \ {first})

\* insert into tournament_captain: the error the store answers with, or NULL
CaptainInsertError(caller, row) ==
    IF row.tournament_id \notin DOMAIN tournaments THEN "foreign_key"
    ELSE IF ~IsOrganizer(caller, row.tournament_id) THEN "rls"
    ELSE NULL

\* a new row that starts with a vote
CaptainInsert_Voted(row) ==
    tournament_captain \cup {[id |-> nextId + 1, tournament_id |-> row.tournament_id,
                              name |-> row.name, mobile |-> row.mobile,
                              photo_url |-> row.photo_url, created_by |-> row.created_by,
                              votes |-> 1, created_at |-> nextId + 1, is_active |-> TRUE]}

\* the new row: votes DEFAULT 0, is_active DEFAULT true
CaptainInsert(row) ==
    tournament_captain \cup {[id |-> nextId + 1, tournament_id |-> row.tournament_id,
                              name |-> row.name, mobile |-> row.mobile,
                              photo_url |-> row.photo_url, created_by |-> row.created_by,
                              votes |-> 0, created_at |-> nextId + 1, is_active |-> TRUE]}

\* What the page renders: the spinner, "Tournament not found.", or the form
\* with the list of captains.
CcView(c) == IF ccLoading[c] THEN "spinner"
             ELSE IF ccTournament[c] = <<>> THEN "not found" ELSE "page"

CcFormShown(c) == route[c] = "CreateCaptains" /\ CcView(c) = "page"

\* The client opens the page: fresh component state, then the effect calls
\* fetchData, which runs up to its first await.
CcVisit(c) ==
    /\ route[c] # "CreateCaptains"
    /\ route' = [route EXCEPT ![c] = "CreateCaptains"]
    /\ ccTournament' = [ccTournament EXCEPT ![c] = <<>>]
    /\ ccCaptains' = [ccCaptains EXCEPT ![c] = <<>>]
    /\ ccCreating' = [ccCreating EXCEPT ![c] = FALSE]
    /\ captainName' = [captainName EXCEPT ![c] = <<>>]
    /\ captainMobile' = [captainMobile EXCEPT ![c] = <<>>]
    /\ photoPreview' = [photoPreview EXCEPT ![c] = NULL]
    /\ ccLoading' = [ccLoading EXCEPT ![c] = TRUE]
    /\ ccFetches' = [ccFetches EXCEPT ![c] = Append(@,
            [phase |-> "tournament", data |-> <<>>, error |-> NULL])]
    /\ UNCHANGED <<captainsFrame, tournament_captain, nextId, session, toast, ccCreates>>

\* the store answers the tournament query (.eq("id", tournamentId).single())
CcStoreTournament(c, i) ==
    /\ i \in 1..Len(ccFetches[c])
    /\ ccFetches[c][i].phase = "tournament"
    /\ LET tid == session[c].tournamentId
           answer(data, err) == [ccFetches EXCEPT ![c] = ReplaceAt(@, i,
                [phase |-> "tournament-resp", data |-> data, error |-> err])]
       IN
        \/ ccFetches' = answer(<<>>, "network")
        \/ ccFetches' =
            IF tid \in DOMAIN tournaments
            THEN answer(<<[id |-> tid,
                           captain_voting_enabled |-> tournaments[tid].captain_voting_enabled,
                           organizer_id |-> tournaments[tid].organizer_id]>>, NULL)
            ELSE answer(<<>>, "PGRST116")
    /\ UNCHANGED <<captainsFrame, tournament_captain, nextId, session, toast, route,
                   ccTournament, ccCaptains, ccLoading, ccCreating, captainName, captainMobile,
                   photoPreview, ccCreates>>

\* a page that does not look at captain_voting_enabled
CcVotingDisabled_Never(row) == FALSE

\* if (!tournamentData.captain_voting_enabled)
CcVotingDisabled(row) == ~row.captain_voting_enabled

\* fetchData from the tournament's answer to the query of fetchCaptains
CcTournamentDone(c, i) ==
    /\ i \in 1..Len(ccFetches[c])
    /\ ccFetches[c][i].phase = "tournament-resp"
    /\ LET f == ccFetches[c][i]
           stop(title, to) ==
                /\ toast' = Toast(c, title)
                /\ route' = [route EXCEPT ![c] = to]
                /\ ccLoading' = [ccLoading EXCEPT ![c] = FALSE]
                /\ ccFetches' = [ccFetches EXCEPT ![c] = RemoveAt(@, i)]
                /\ UNCHANGED ccTournament
       IN
        IF f.error # NULL THEN stop("Error: Failed to load tournament data.", route[c])
        ELSE IF f.data = <<>> THEN stop("Error: Tournament not found.", "/tournaments")
        ELSE IF session[c].user # NULL /\ f.data[1].organizer_id # session[c].user
        THEN stop("Access Denied", "/tournaments/:id")
        ELSE IF CcVotingDisabled(f.data[1])
        THEN stop("Not Available", "/tournaments/:id")
        ELSE /\ ccTournament' = [ccTournament EXCEPT ![c] = f.data]
             /\ ccFetches' = [ccFetches EXCEPT ![c] = ReplaceAt(@, i,
                    [phase |-> "captains", data |-> <<>>, error |-> NULL])]
             /\ UNCHANGED <<toast, route, ccLoading>>
    /\ UNCHANGED <<captainsFrame, tournament_captain, nextId, session, ccCaptains, ccCreating,
                   captainName, captainMobile, photoPreview, ccCreates>>

\* the store answers the query of fetchCaptains
CaptainsAnswer(c) ==
    {[data |-> <<>>, error |-> "network"],
     [data |-> ByCreatedAtDesc(CaptainsListed(session[c].tournamentId)), error |-> NULL]}

CcStoreCaptains(c, i) ==
    /\ i \in 1..Len(ccFetches[c])
    /\ ccFetches[c][i].phase = "captains"
    /\ \E a \in CaptainsAnswer(c) :
        ccFetches' = [ccFetches EXCEPT ![c] = ReplaceAt(@, i,
            [phase |-> "captains-resp", data |-> a.data, error |-> a.error])]
    /\ UNCHANGED <<captainsFrame, tournament_captain, nextId, session, toast, route,
                   ccTournament, ccCaptains, ccLoading, ccCreating, captainName, captainMobile,
                   photoPreview, ccCreates>>

\* fetchCaptains after its await and the end of fetchData
CcCaptainsDone(c, i) ==
    /\ i \in 1..Len(ccFetches[c])
    /\ ccFetches[c][i].phase = "captains-resp"
    /\ IF ccFetches[c][i].error # NULL
       THEN /\ toast' = Toast(c, "Error: Failed to load tournament data.")
            /\ UNCHANGED ccCaptains
       ELSE /\ ccCaptains' = [ccCaptains EXCEPT ![c] = ccFetches[c][i].data]
            /\ UNCHANGED toast
    /\ ccLoading' = [ccLoading EXCEPT ![c] = FALSE]
    /\ ccFetches' = [ccFetches EXCEPT ![c] = RemoveAt(@, i)]
    /\ UNCHANGED <<captainsFrame, tournament_captain, nextId, session, route, ccTournament,
                   ccCreating, captainName, captainMobile, photoPreview, ccCreates>>

CcSetCaptainName(c, text) ==
    /\ CcFormShown(c)
    /\ captainName[c] # text
    /\ captainName' = [captainName EXCEPT ![c] = text]
    /\ UNCHANGED <<captainsFrame, tournament_captain, nextId, session, toast, route,
                   ccTournament, ccCaptains, ccLoading, ccCreating, captainMobile, photoPreview,
                   ccFetches, ccCreates>>

CcSetCaptainMobile(c, text) ==
    /\ CcFormShown(c)
    /\ captainMobile[c] # text
    /\ captainMobile' = [captainMobile EXCEPT ![c] = text]
    /\ UNCHANGED <<captainsFrame, tournament_captain, nextId, session, toast, route,
                   ccTournament, ccCaptains, ccLoading, ccCreating, captainName, photoPreview,
                   ccFetches, ccCreates>>

\* handlePhotoChange and the reader's onloadend
CcPhotoChange(c) ==
    /\ CcFormShown(c)
    /\ photoPreview[c] = NULL
    /\ photoPreview' = [photoPreview EXCEPT ![c] = "data:image"]
    /\ UNCHANGED <<captainsFrame, tournament_captain, nextId, session, toast, route,
                   ccTournament, ccCaptains, ccLoading, ccCreating, captainName, captainMobile,
                   ccFetches, ccCreates>>

\* !captainName.trim() || !captainMobile.trim(), then captainMobile.length < 10
CaptainRejected(name, mobile) ==
    Trim(name) = <<>> \/ Trim(mobile) = <<>> \/ Len(mobile) < 10

\* handleCreateCaptain up to its await; the button is disabled while creating
CcHandleCreateCaptain(c) ==
    /\ CcFormShown(c)
    /\ ~ccCreating[c]
    /\ IF CaptainRejected(captainName[c], captainMobile[c])
       THEN /\ toast' = Toast(c, "Validation Error")
            /\ UNCHANGED <<ccCreating, ccCreates>>
       ELSE /\ ccCreating' = [ccCreating EXCEPT ![c] = TRUE]
            /\ ccCreates' = [ccCreates EXCEPT ![c] = Append(@,
                    [row |-> [tournament_id |-> session[c].tournamentId,
                              name |-> Trim(captainName[c]),
                              mobile |-> Trim(captainMobile[c]),
                              photo_url |-> photoPreview[c],
                              created_by |-> session[c].user],
                     phase |-> "insert", data |-> <<>>, error |-> NULL])]
            /\ UNCHANGED toast
    /\ UNCHANGED <<captainsFrame, tournament_captain, nextId, session, route, ccTournament,
                   ccCaptains, ccLoading, captainName, captainMobile, photoPreview, ccFetches>>

\* the store executes the insert into tournament_captain, or the request fails
CcStoreInsert(c, i) ==
    /\ i \in 1..Len(ccCreates[c])
    /\ ccCreates[c][i].phase = "insert"
    /\ LET q == ccCreates[c][i]
           err == CaptainInsertError(session[c].user, q.row)
           answer(e) == [ccCreates EXCEPT ![c] =
                            ReplaceAt(@, i, [q EXCEPT !.phase = "insert-resp", !.error = e])]
       IN
        \/ /\ ccCreates' = answer("network")
           /\ UNCHANGED <<tournament_captain, nextId>>
        \/ /\ ccCreates' = answer(err)
           /\ IF err # NULL THEN UNCHANGED <<tournament_captain, nextId>>
              ELSE /\ tournament_captain' = CaptainInsert(q.row)
                   /\ nextId' = nextId + 1
    /\ UNCHANGED <<captainsFrame, session, toast, route, ccTournament, ccCaptains, ccLoading,
                   ccCreating, captainName, captainMobile, photoPreview, ccFetches>>

\* handleCreateCaptain from the insert's answer to the query of fetchCaptains
CcInsertDone(c, i) ==
    /\ i \in 1..Len(ccCreates[c])
    /\ ccCreates[c][i].phase = "insert-resp"
    /\ IF ccCreates[c][i].error = NULL
       THEN /\ toast' = Toast(c, "Success: Captain added successfully.")
            /\ captainName' = [captainName EXCEPT ![c] = <<>>]
            /\ captainMobile' = [captainMobile EXCEPT ![c] = <<>>]
            /\ photoPreview' = [photoPreview EXCEPT ![c] = NULL]
            /\ ccCreates' = [ccCreates EXCEPT ![c] = ReplaceAt(@, i,
                    [ccCreates[c][i] EXCEPT !.phase = "captains"])]
            /\ UNCHANGED ccCreating
       ELSE /\ toast' = Toast(c, "Error: Failed to add captain.")
            /\ ccCreating' = [ccCreating EXCEPT ![c] = FALSE]
            /\ ccCreates' = [ccCreates EXCEPT ![c] = RemoveAt(@, i)]
            /\ UNCHANGED <<captainName, captainMobile, photoPreview>>
    /\ UNCHANGED <<captainsFrame, tournament_captain, nextId, session, route, ccTournament,
                   ccCaptains, ccLoading, ccFetches>>

\* the store answers the refresh query of handleCreateCaptain
CcStoreRefresh(c, i) ==
    /\ i \in 1..Len(ccCreates[c])
    /\ ccCreates[c][i].phase = "captains"
    /\ \E a \in CaptainsAnswer(c) :
        ccCreates' = [ccCreates EXCEPT ![c] = ReplaceAt(@, i,
            [ccCreates[c][i] EXCEPT !.phase = "captains-resp", !.data = a.data,
                                    !.error = a.error])]
    /\ UNCHANGED <<captainsFrame, tournament_captain, nextId, session, toast, route,
                   ccTournament, ccCaptains, ccLoading, ccCreating, captainName, captainMobile,
                   photoPreview, ccFetches>>

\* handleCreateCaptain after the refresh: a failed refresh is reported as a
\* failure to add the captain
CcRefreshDone(c, i) ==
    /\ i \in 1..Len(ccCreates[c])
    /\ ccCreates[c][i].phase = "captains-resp"
    /\ IF ccCreates[c][i].error # NULL
       THEN /\ toast' = Toast(c, "Error: Failed to add captain.")
            /\ UNCHANGED ccCaptains
       ELSE /\ ccCaptains' = [ccCaptains EXCEPT ![c] = ccCreates[c][i].data]
            /\ UNCHANGED toast
    /\ ccCreating' = [ccCreating EXCEPT ![c] = FALSE]
    /\ ccCreates' = [ccCreates EXCEPT ![c] = RemoveAt(@, i)]
    /\ UNCHANGED <<captainsFrame, tournament_captain, nextId, session, route, ccTournament,
                   ccLoading, captainName, captainMobile, photoPreview, ccFetches>>

\* The back link of the rendered page.
CcLeave(c) ==
    /\ route[c] = "CreateCaptains"
    /\ CcView(c) = "page"
    /\ route' = [route EXCEPT ![c] = "/tournaments/:id"]
    /\ UNCHANGED <<captainsFrame, tournament_captain, nextId, session, toast, ccTournament,
                   ccCaptains, ccLoading, ccCreating, captainName, captainMobile, photoPreview,
                   ccFetches, ccCreates>>

\* ================================== direct calls of the store interface
\* auth.uid() of a call: a user, or nobody
Callers == Users \cup {NULL}

\* FOR SELECT USING (true)
Readable(caller, r) == TRUE

\* select * from a table, as the caller sees it
RowsSelect(caller, rows) == {r \in rows : Readable(caller, r)}

\* FOR ALL USING (EXISTS (SELECT 1 FROM tournaments t WHERE t.id =
\* tournament_id AND t.organizer_id = auth.uid()))
Manageable_Everyone(caller, r) == TRUE

Manageable(caller, r) == IsOrganizer(caller, r.tournament_id)

\* update or delete ... where id = rid: the policy hides the rows the caller
\* may not manage from the statement, which then matches no row and is
\* answered without an error.
FilteredWriteError(caller, rows, rid) == NULL

\* delete from a table where id = rid
RowsDelete(caller, rows, rid) ==
    {r \in rows : ~(r.id = rid /\ Manageable(caller, r))}

\* update tournament_captain set name = name where id = rid
CaptainUpdate(caller, rid, name) ==
    {IF r.id = rid /\ Manageable(caller, r)
         THEN [r EXCEPT !.name = name] ELSE r : r \in tournament_captain}

ApiFrame == <<tournaments, teams, session, toast, route, timerVars, timerScenario,
              control, profiles, searchVars, votingVars, catVars, teamsVars, votesVars, captainsVars>>

ApiBidTimes == {30, 60}
ApiConfigRow(tid, rid, n) ==
    [id |-> rid, tournament_id |-> tid, category |-> "Gold", max_players |-> Num(n),
     base_price |-> ParseFloat(<<"0">>)]
ApiCaptainRow(tid, caller) ==
    [tournament_id |-> tid, name |-> <<"A">>, mobile |-> <<"9">>, photo_url |-> NULL,
     created_by |-> caller]

ApiTimerInsert(caller, tid, n) ==
    /\ IF TimerInsertError(caller, tid) = NULL
       THEN auction_timer' = TimerInsert(tid, n) /\ nextId' = nextId + 1
       ELSE UNCHANGED <<auction_timer, nextId>>
    /\ UNCHANGED <<ApiFrame, auction_config, tournament_captain>>

ApiTimerUpdate(caller, rid, n) ==
    /\ auction_timer' = TimerUpdate(caller, rid, n)
    /\ UNCHANGED <<ApiFrame, nextId, auction_config, tournament_captain>>

ApiTimerDelete(caller, rid) ==
    /\ auction_timer' = RowsDelete(caller, auction_timer, rid)
    /\ UNCHANGED <<ApiFrame, nextId, auction_config, tournament_captain>>

ApiConfigInsert(caller, tid, n) ==
    /\ IF ConfigInsertError(caller, ApiConfigRow(tid, NoId, n)) = NULL
       THEN auction_config' = ConfigInsert(ApiConfigRow(tid, NoId, n)) /\ nextId' = nextId + 1
       ELSE UNCHANGED <<auction_config, nextId>>
    /\ UNCHANGED <<ApiFrame, auction_timer, tournament_captain>>

ApiConfigUpdate(caller, rid, n) ==
    /\ auction_config' = ConfigUpdate(caller, ApiConfigRow(NULL, rid, n))
    /\ UNCHANGED <<ApiFrame, nextId, auction_timer, tournament_captain>>

ApiConfigDelete(caller, rid) ==
    /\ auction_config' = RowsDelete(caller, auction_config, rid)
    /\ UNCHANGED <<ApiFrame, nextId, auction_timer, tournament_captain>>

ApiCaptainInsert(caller, tid) ==
    /\ IF CaptainInsertError(caller, ApiCaptainRow(tid, caller)) = NULL
       THEN /\ tournament_captain' = CaptainInsert(ApiCaptainRow(tid, caller))
            /\ nextId' = nextId + 1
       ELSE UNCHANGED <<tournament_captain, nextId>>
    /\ UNCHANGED <<ApiFrame, auction_timer, auction_config>>

ApiCaptainUpdate(caller, rid, name) ==
    /\ tournament_captain' = CaptainUpdate(caller, rid, name)
    /\ UNCHANGED <<ApiFrame, nextId, auction_timer, auction_config>>

ApiCaptainDelete(caller, rid) ==
    /\ tournament_captain' = RowsDelete(caller, tournament_captain, rid)
    /\ UNCHANGED <<ApiFrame, nextId, auction_timer, auction_config>>

\* ----------------------------------------------- the scenario observer
\* timerScenario records what client c1 did with the modal, as long as it is
\* a prefix of: open, loaded, submit, saved, open, loaded, submit, saved (each
\* request answered without an error); anything else turns it to OffScenario.
Event(what) == [what |-> what, kind |-> NULL, n |-> 0]

OffScenario == <<Event("off")>>

ScenarioPattern == <<"open", "loaded", "submit", "saved",
                     "open", "loaded", "submit", "saved">>

ScenarioAdd(e) ==
    IF /\ timerScenario # OffScenario
       /\ Len(timerScenario) < Len(ScenarioPattern)
       /\ ScenarioPattern[Len(timerScenario) + 1] = e.what
    THEN Append(timerScenario, e)
    ELSE OffScenario

Observe(e) == timerScenario' = ScenarioAdd(e)

\* ------------------------------------------------------- initial states
\* The tournaments the organizers have created: u1 owns t1, u2 owns t2, each
\* for n teams; captain voting is enabled for t1 only.
TournamentRows(n) ==
    [t \in TournamentIds |->
        [organizer_id |-> IF t = "t1" THEN "u1" ELSE "u2",
         number_of_teams |-> n,
         team_budget |-> 100,
         captain_voting_enabled |-> (t = "t1"),
         is_voting_live |-> FALSE]]

\* The action menu and its modals are mounted for the tournament's organizer;
\* c1 works on t1, c2 on either tournament.
OrganizerSessions ==
    {s \in [Clients -> [user : Users, tournamentId : TournamentIds]] :
        /\ s["c1"].tournamentId = "t1"
        /\ \A c \in Clients :
            s[c].user = (IF s[c].tournamentId = "t1" THEN "u1" ELSE "u2")}

InitTimerModal ==
    /\ timerOpen = [c \in Clients |-> FALSE]
    /\ bidTime = [c \in Clients |-> <<"1", "0">>]
    /\ timerLoading = [c \in Clients |-> FALSE]
    /\ timerSaving = [c \in Clients |-> FALSE]
    /\ existingId = [c \in Clients |-> NoId]
    /\ timerFetches = [c \in Clients |-> <<>>]
    /\ timerSaves = [c \in Clients |-> <<>>]
    /\ timerScenario = <<>>

InitActionMenu ==
    /\ isVotingLive = [c \in Clients |-> tournaments[session[c].tournamentId].is_voting_live]
    /\ isTogglingVoting = [c \in Clients |-> FALSE]
    /\ votingReqs = [c \in Clients |-> <<>>]

InitCategoryModal ==
    /\ catOpen = [c \in Clients |-> FALSE]
    /\ configs = [c \in Clients |-> <<>>]
    /\ catLoading = [c \in Clients |-> FALSE]
    /\ catSaving = [c \in Clients |-> FALSE]
    /\ editingId = [c \in Clients |-> NoId]
    /\ category = [c \in Clients |-> NULL]
    /\ maxPlayers = [c \in Clients |-> <<>>]
    /\ basePrice = [c \in Clients |-> <<>>]
    /\ catFetches = [c \in Clients |-> <<>>]
    /\ catSaves = [c \in Clients |-> <<>>]
    /\ catDeletes = [c \in Clients |-> <<>>]

InitTeamsPage ==
    /\ ctTournament = [c \in Clients |-> <<>>]
    /\ ctTeams = [c \in Clients |-> <<>>]
    /\ ctLoading = [c \in Clients |-> TRUE]
    /\ creating = [c \in Clients |-> FALSE]
    /\ teamName = [c \in Clients |-> <<>>]
    /\ teamBudget = [c \in Clients |-> <<>>]
    /\ selectedCaptain = [c \in Clients |-> <<>>]
    /\ ctFetches = [c \in Clients |-> <<>>]
    /\ ctCreates = [c \in Clients |-> <<>>]
    /\ searchModalOpen = [c \in Clients |-> FALSE]
    /\ searchMobile = [c \in Clients |-> <<>>]
    /\ searchResults = [c \in Clients |-> <<>>]
    /\ searching = [c \in Clients |-> FALSE]
    /\ ctSearches = [c \in Clients |-> <<>>]

InitVotesPage ==
    /\ vcTournament = [c \in Clients |-> <<>>]
    /\ captains = [c \in Clients |-> <<>>]
    /\ vcLoading = [c \in Clients |-> TRUE]
    /\ vcFetches = [c \in Clients |-> <<>>]

InitCaptainsPage ==
    /\ ccTournament = [c \in Clients |-> <<>>]
    /\ ccCaptains = [c \in Clients |-> <<>>]
    /\ ccLoading = [c \in Clients |-> TRUE]
    /\ ccCreating = [c \in Clients |-> FALSE]
    /\ captainName = [c \in Clients |-> <<>>]
    /\ captainMobile = [c \in Clients |-> <<>>]
    /\ photoPreview = [c \in Clients |-> NULL]
    /\ ccFetches = [c \in Clients |-> <<>>]
    /\ ccCreates = [c \in Clients |-> <<>>]

\* The tournament page, no component mounted yet.
InitPages ==
    /\ toast = NoToast
    /\ route = [c \in Clients |-> "/tournaments/:id"]
    /\ InitTimerModal
    /\ InitActionMenu
    /\ InitCategoryModal
    /\ InitTeamsPage
    /\ InitVotesPage
    /\ InitCaptainsPage

\* Organizers logged in on the tournament page.
InitComponents == session \in OrganizerSessions /\ InitPages

\* Clients free to use every control.
InitClients == InitComponents /\ control = NULL

\* Freshly migrated tables and tournaments for n teams each.
InitStore(n) ==
    /\ tournaments = TournamentRows(n)
    /\ auction_timer = {}
    /\ auction_config = {}
    /\ teams = {}
    /\ profiles = StoredProfiles
    /\ tournament_captain = {}
    /\ nextId = 0

Init == InitStore(1) /\ InitClients

\* -------------------------------------------------------- specifications
\* One organizer working alone with the bid-timer modal, watched by the observer.
NextTimer ==
    LET c == "c1" IN
    \/ /\ Len(timerFetches[c]) < MaxInFlight
       /\ TimerOpenModal(c)
       /\ Observe(Event("open"))
    \/ TimerCloseModal(c) /\ UNCHANGED timerScenario
    \/ \E text \in TimerTexts : TimerSetBidTime(c, text) /\ UNCHANGED timerScenario
    \/ \E i \in 1..MaxInFlight : TimerStoreFetch(c, i) /\ UNCHANGED timerScenario
    \/ \E i \in 1..MaxInFlight :
        /\ TimerFetchDone(c, i)
        /\ Observe(Event(IF timerFetches[c][i].error = NULL
                         THEN "loaded" ELSE "load failed"))
    \/ /\ TimerHandleSubmit(c)
       /\ IF timerSaves'[c] = timerSaves[c]
          THEN Observe(Event("rejected"))
          ELSE Observe([what |-> "submit", kind |-> timerSaves'[c][1].kind,
                        n |-> timerSaves'[c][1].bid_time])
    \/ TimerStoreSave(c, 1) /\ UNCHANGED timerScenario
    \/ /\ TimerSaveDone(c, 1)
       /\ Observe(Event(IF timerSaves[c][1].error = NULL
                        THEN "saved" ELSE "save failed"))

SpecTimer == Init /\ [][NextTimer]_vars

\* What the two racing clients type.
RaceTexts == {<<"1", "2", "1">>}

\* Two clients with the bid-timer modal at once.
NextTimerRace ==
    \E c \in Clients :
        \/ /\ Len(timerFetches[c]) < MaxInFlightRace
           /\ TimerOpenModal(c)
           /\ UNCHANGED timerScenario
        \/ TimerCloseModal(c) /\ UNCHANGED timerScenario
        \/ \E text \in RaceTexts : TimerSetBidTime(c, text) /\ UNCHANGED timerScenario
        \/ \E i \in 1..MaxInFlightRace : TimerStoreFetch(c, i) /\ UNCHANGED timerScenario
        \/ \E i \in 1..MaxInFlightRace : TimerFetchDone(c, i) /\ UNCHANGED timerScenario
        \/ TimerHandleSubmit(c) /\ UNCHANGED timerScenario
        \/ TimerStoreSave(c, 1) /\ UNCHANGED timerScenario
        \/ TimerSaveDone(c, 1) /\ UNCHANGED timerScenario

SpecTimerRace == Init /\ [][NextTimerRace]_vars

\* The action menus of the clients and their parents.
NextVoting ==
    \E c \in Clients :
        \/ VotingHandleToggle(c)
        \/ VotingStoreUpdate(c, 1)
        \/ VotingToggleDone(c, 1)
        \/ ParentRefresh(c)

SpecVoting == Init /\ [][NextVoting]_vars

\* The organizer of t1 alone on the CreateTeams page of a tournament for
\* 1..MaxNumberOfTeams teams.
InitTeams == (\E n \in 1..MaxNumberOfTeams : InitStore(n)) /\ InitClients

NextTeams ==
    LET c == "c1" IN
    \/ CtVisit(c)
    \/ \E i \in 1..Len(ctFetches[c]) : CtStoreTournament(c, i)
    \/ \E i \in 1..Len(ctFetches[c]) : CtTournamentDone(c, i)
    \/ \E i \in 1..Len(ctFetches[c]) : CtStoreTeams(c, i)
    \/ \E i \in 1..Len(ctFetches[c]) : CtTeamsDone(c, i)
    \/ \E text \in TeamNameTexts : CtSetTeamName(c, text)
    \/ \E text \in TeamBudgetTexts : CtSetTeamBudget(c, text)
    \/ /\ Cardinality(teams) + Len(ctCreates[c]) < MaxStoredTeams
       /\ CtHandleCreateTeam(c)
    \/ \E i \in 1..Len(ctCreates[c]) : CtStoreInsert(c, i)
    \/ \E i \in 1..Len(ctCreates[c]) : CtCreateDone(c, i)

SpecTeams == InitTeams /\ [][NextTeams]_vars

\* The organizer of t1 on the CreateTeams page with its captain search.
NextSearch ==
    LET c == "c1" IN
    \/ /\ Len(ctFetches[c]) = 0
       /\ CtVisit(c)
    \/ CtStoreTournament(c, 1)
    \/ CtTournamentDone(c, 1)
    \/ CtStoreTeams(c, 1)
    \/ CtTeamsDone(c, 1)
    \/ \E text \in {<<"a">>} : CtSetTeamName(c, text)
    \/ \E open \in BOOLEAN : CtSetSearchModalOpen(c, open)
    \/ \E text \in SearchMobileTexts : CtSetSearchMobile(c, text)
    \/ CtHandleSearchCaptain(c)
    \/ CtStoreSearch(c, 1)
    \/ CtSearchDone(c, 1)
    \/ \E k \in 1..Len(searchResults[c]) : CtHandleSelectCaptain(c, k)
    \/ /\ Cardinality(teams) + Len(ctCreates[c]) < MaxSearchTeams
       /\ CtHandleCreateTeam(c)
    \/ CtStoreInsert(c, 1)
    \/ CtCreateDone(c, 1)

SpecSearch == InitTeams /\ [][NextSearch]_vars

\* The captains of the tournaments as nominations and votes left them: up to
\* n rows, each with 0..MaxVotesValue votes, active or not.
CaptainTables(n) ==
    UNION {{{[id |-> i, tournament_id |-> f[i].tournament_id, votes |-> f[i].votes,
              created_at |-> i, is_active |-> f[i].is_active] : i \in 1..k} :
            f \in [1..k -> [tournament_id : TournamentIds, votes : 0..MaxVotesValue,
                            is_active : BOOLEAN]]} :
           k \in 0..n}

InitVotes ==
    /\ tournaments = TournamentRows(1)
    /\ auction_timer = {}
    /\ auction_config = {}
    /\ teams = {}
    /\ profiles = StoredProfiles
    /\ tournament_captain \in CaptainTables(MaxCaptains)
    /\ nextId = Cardinality(tournament_captain)
    /\ InitClients

\* One client on the ViewCaptainVotes page.
NextVotes ==
    LET c == "c1" IN
    \/ VcVisit(c)
    \/ VcLeave(c)
    \/ \E i \in 1..Len(vcFetches[c]) : VcStoreTournament(c, i)
    \/ \E i \in 1..Len(vcFetches[c]) : VcTournamentDone(c, i)
    \/ \E i \in 1..Len(vcFetches[c]) : VcStoreCaptains(c, i)
    \/ \E i \in 1..Len(vcFetches[c]) : VcCaptainsDone(c, i)

SpecVotes == InitVotes /\ [][NextVotes]_vars

\* One organizer working alone with the category modal.
NextCategory ==
    LET c == "c1" IN
    \/ CatInFlight(c) < MaxCatInFlight /\ CatOpenModal(c)
    \/ CatCloseModal(c)
    \/ \E i \in 1..Len(catFetches[c]) : CatStoreFetch(c, i)
    \/ \E i \in 1..Len(catFetches[c]) : CatFetchDone(c, i)
    \/ \E cat \in CategoryOptions : CatSetCategory(c, cat)
    \/ \E text \in MaxPlayersTexts : CatSetMaxPlayers(c, text)
    \/ \E text \in BasePriceTexts : CatSetBasePrice(c, text)
    \/ CatResetForm(c)
    \/ \E i \in 1..Len(configs[c]) : CatHandleEdit(c, i)
    \/ /\ CatInFlight(c) < MaxCatInFlight
       /\ editingId[c] = NoId => Cardinality(auction_config) < MaxConfigs
       /\ CatHandleSubmit(c)
    \/ \E i \in 1..Len(catSaves[c]) : CatStoreSave(c, i)
    \/ \E i \in 1..Len(catSaves[c]) : CatSaveDone(c, i)
    \/ \E i \in 1..Len(configs[c]) : CatInFlight(c) < MaxCatInFlight /\ CatHandleDelete(c, i)
    \/ \E i \in 1..Len(catDeletes[c]) : CatStoreDelete(c, i)
    \/ \E i \in 1..Len(catDeletes[c]) : CatDeleteDone(c, i)

SpecCategory == Init /\ [][NextCategory]_vars

\* Two sessions of the organizer of t1 working with the category modal on the
\* one config the tournament has: each may edit it and save the edit.
SharedSessions == [c \in Clients |-> [user |-> "u1", tournamentId |-> "t1"]]

SharedConfig ==
    [id |-> 1, tournament_id |-> "t1", category |-> "Gold", max_players |-> 2,
     base_price |-> ParseFloat(<<"2", ".", "5">>), created_at |-> 1, updated_at |-> 0,
     is_active |-> TRUE]

SharedMaxPlayersTexts == {<<"3">>}

InitShared ==
    /\ tournaments = TournamentRows(1)
    /\ auction_timer = {}
    /\ auction_config = {SharedConfig}
    /\ teams = {}
    /\ profiles = StoredProfiles
    /\ tournament_captain = {}
    /\ nextId = 1
    /\ InitClients
    /\ session = SharedSessions

NextShared ==
    \E c \in Clients :
        \/ CatInFlight(c) < MaxSharedInFlight /\ CatOpenModal(c)
        \/ CatStoreFetch(c, 1)
        \/ CatFetchDone(c, 1)
        \/ \E i \in 1..Len(configs[c]) : CatHandleEdit(c, i)
        \/ /\ editingId[c] # NoId
           /\ \/ \E cat \in CategoryOptions : CatSetCategory(c, cat)
              \/ \E text \in SharedMaxPlayersTexts : CatSetMaxPlayers(c, text)
              \/ CatInFlight(c) < MaxSharedInFlight /\ CatHandleSubmit(c)
        \/ CatStoreSave(c, 1)
        \/ CatSaveDone(c, 1)

SpecShared == InitShared /\ [][NextShared]_vars

\* The same two sessions, where the first edits the config and either deletes it.
NextSharedDelete ==
    \/ LET c == "c1" IN
        \/ \E i \in 1..Len(configs[c]) : CatHandleEdit(c, i)
        \/ /\ editingId[c] # NoId
           /\ \/ \E cat \in CategoryOptions : CatSetCategory(c, cat)
              \/ CatInFlight(c) < MaxSharedInFlight /\ CatHandleSubmit(c)
        \/ CatStoreSave(c, 1)
        \/ CatSaveDone(c, 1)
    \/ \E c \in Clients :
        \/ CatInFlight(c) < MaxSharedInFlight /\ CatOpenModal(c)
        \/ CatStoreFetch(c, 1)
        \/ CatFetchDone(c, 1)
        \/ \E i \in 1..Len(configs[c]) :
                CatInFlight(c) < MaxSharedInFlight /\ CatHandleDelete(c, i)
        \/ CatStoreDelete(c, 1)
        \/ CatDeleteDone(c, 1)

SpecSharedDelete == InitShared /\ [][NextSharedDelete]_vars

\* The organizer of t1 alone on the CreateCaptains page.
NextCaptains ==
    LET c == "c1" IN
    \/ CcVisit(c)
    \/ ccCreates[c] = <<>> /\ CcLeave(c)
    \/ \E i \in 1..Len(ccFetches[c]) : CcStoreTournament(c, i)
    \/ \E i \in 1..Len(ccFetches[c]) : CcTournamentDone(c, i)
    \/ \E i \in 1..Len(ccFetches[c]) : CcStoreCaptains(c, i)
    \/ \E i \in 1..Len(ccFetches[c]) : CcCaptainsDone(c, i)
    \/ \E text \in CaptainNameTexts : CcSetCaptainName(c, text)
    \/ \E text \in CaptainMobileTexts : CcSetCaptainMobile(c, text)
    \/ CcPhotoChange(c)
    \/ /\ Cardinality(tournament_captain) + Len(ccCreates[c]) < MaxCreatedCaptains
       /\ CcHandleCreateCaptain(c)
    \/ \E i \in 1..Len(ccCreates[c]) : CcStoreInsert(c, i)
    \/ \E i \in 1..Len(ccCreates[c]) : CcInsertDone(c, i)
    \/ \E i \in 1..Len(ccCreates[c]) : CcStoreRefresh(c, i)
    \/ \E i \in 1..Len(ccCreates[c]) : CcRefreshDone(c, i)

SpecCaptains == Init /\ [][NextCaptains]_vars

\* The organizer of t1 saving configs whose numbers are at or below the
\* minimum the inputs announce (min="1", min="0").
LowMaxPlayersTexts == {<<"0">>, <<"1">>}
LowBasePriceTexts == {<<"-", "1">>, <<"0">>}

NextCategoryValues ==
    LET c == "c1" IN
    \/ CatInFlight(c) < MaxCatInFlight /\ CatOpenModal(c)
    \/ CatCloseModal(c)
    \/ \E i \in 1..Len(catFetches[c]) : CatStoreFetch(c, i)
    \/ \E i \in 1..Len(catFetches[c]) : CatFetchDone(c, i)
    \/ \E cat \in CategoryOptions : CatSetCategory(c, cat)
    \/ \E text \in LowMaxPlayersTexts : CatSetMaxPlayers(c, text)
    \/ \E text \in LowBasePriceTexts : CatSetBasePrice(c, text)
    \/ \E i \in 1..Len(configs[c]) : CatHandleEdit(c, i)
    \/ /\ CatInFlight(c) < MaxCatInFlight
       /\ editingId[c] = NoId => Cardinality(auction_config) < MaxLowConfigs
       /\ CatHandleSubmit(c)
    \/ \E i \in 1..Len(catSaves[c]) : CatStoreSave(c, i)
    \/ \E i \in 1..Len(catSaves[c]) : CatSaveDone(c, i)

SpecCategoryValues == Init /\ [][NextCategoryValues]_vars

\* The two organizer pages opened while tournaments get removed: a client
\* whose tournament is gone asks for an id that no row has.
NextMissing ==
    \E c \in Clients :
        \/ Len(ctFetches[c]) < MaxPageLoads /\ CtVisit(c)
        \/ \E i \in 1..Len(ctFetches[c]) : CtStoreTournament(c, i)
        \/ \E i \in 1..Len(ctFetches[c]) : CtTournamentDone(c, i)
        \/ \E i \in 1..Len(ctFetches[c]) : CtStoreTeams(c, i)
        \/ \E i \in 1..Len(ctFetches[c]) : CtTeamsDone(c, i)
        \/ Len(ccFetches[c]) < MaxPageLoads /\ CcVisit(c)
        \/ \E i \in 1..Len(ccFetches[c]) : CcStoreTournament(c, i)
        \/ \E i \in 1..Len(ccFetches[c]) : CcTournamentDone(c, i)
        \/ \E i \in 1..Len(ccFetches[c]) : CcStoreCaptains(c, i)
        \/ \E i \in 1..Len(ccFetches[c]) : CcCaptainsDone(c, i)
        \/ \E tid \in DOMAIN tournaments : TournamentDelete(tid)

SpecMissing == Init /\ [][NextMissing]_vars

Controls == {"timer", "category", "voting", "teams", "captains"}

WriteNameTexts == {<<"A">>}
WriteMobileTexts == {<<"9", "8", "7", "6", "5", "4", "3", "2", "1", "0">>}

\* The organizer of t1 working with one of the write controls: the bid-timer
\* modal, the category modal, the voting item, the team form or the captain
\* form.
InitWrites == InitStore(1) /\ InitComponents /\ control \in Controls

NextWrites ==
    LET c == "c1" IN
    \/ /\ control = "timer" /\ Len(timerFetches[c]) < MaxInFlightRace
       /\ TimerOpenModal(c) /\ UNCHANGED timerScenario
    \/ TimerCloseModal(c) /\ UNCHANGED timerScenario
    \/ \E text \in RaceTexts : TimerSetBidTime(c, text) /\ UNCHANGED timerScenario
    \/ \E i \in 1..Len(timerFetches[c]) : TimerStoreFetch(c, i) /\ UNCHANGED timerScenario
    \/ \E i \in 1..Len(timerFetches[c]) : TimerFetchDone(c, i) /\ UNCHANGED timerScenario
    \/ TimerHandleSubmit(c) /\ UNCHANGED timerScenario
    \/ \E i \in 1..Len(timerSaves[c]) : TimerStoreSave(c, i) /\ UNCHANGED timerScenario
    \/ \E i \in 1..Len(timerSaves[c]) : TimerSaveDone(c, i) /\ UNCHANGED timerScenario
    \/ control = "category" /\ CatInFlight(c) < MaxCatInFlight /\ CatOpenModal(c)
    \/ CatCloseModal(c)
    \/ \E i \in 1..Len(catFetches[c]) : CatStoreFetch(c, i)
    \/ \E i \in 1..Len(catFetches[c]) : CatFetchDone(c, i)
    \/ \E cat \in CategoryOptions : CatSetCategory(c, cat)
    \/ \E text \in MaxPlayersTexts : CatSetMaxPlayers(c, text)
    \/ \E text \in BasePriceTexts : CatSetBasePrice(c, text)
    \/ CatResetForm(c)
    \/ \E i \in 1..Len(configs[c]) : CatHandleEdit(c, i)
    \/ /\ Len(catFetches[c]) + Len(catDeletes[c]) < MaxCatInFlight
       /\ editingId[c] = NoId => nextId < MaxWriteRows
       /\ CatHandleSubmit(c)
    \/ \E i \in 1..Len(catSaves[c]) : CatStoreSave(c, i)
    \/ \E i \in 1..Len(catSaves[c]) : CatSaveDone(c, i)
    \/ \E i \in 1..Len(configs[c]) : CatInFlight(c) < MaxCatInFlight /\ CatHandleDelete(c, i)
    \/ \E i \in 1..Len(catDeletes[c]) : CatStoreDelete(c, i)
    \/ \E i \in 1..Len(catDeletes[c]) : CatDeleteDone(c, i)
    \/ control = "voting" /\ VotingHandleToggle(c)
    \/ \E i \in 1..Len(votingReqs[c]) : VotingStoreUpdate(c, i)
    \/ \E i \in 1..Len(votingReqs[c]) : VotingToggleDone(c, i)
    \/ control = "voting" /\ ParentRefresh(c)
    \/ control = "teams" /\ CtVisit(c)
    \/ \E i \in 1..Len(ctFetches[c]) : CtStoreTournament(c, i)
    \/ \E i \in 1..Len(ctFetches[c]) : CtTournamentDone(c, i)
    \/ \E i \in 1..Len(ctFetches[c]) : CtStoreTeams(c, i)
    \/ \E i \in 1..Len(ctFetches[c]) : CtTeamsDone(c, i)
    \/ \E text \in WriteNameTexts : CtSetTeamName(c, text)
    \/ nextId < MaxWriteRows /\ CtHandleCreateTeam(c)
    \/ \E i \in 1..Len(ctCreates[c]) : CtStoreInsert(c, i)
    \/ \E i \in 1..Len(ctCreates[c]) : CtCreateDone(c, i)
    \/ control = "captains" /\ CcVisit(c)
    \/ \E i \in 1..Len(ccFetches[c]) : CcStoreTournament(c, i)
    \/ \E i \in 1..Len(ccFetches[c]) : CcTournamentDone(c, i)
    \/ \E i \in 1..Len(ccFetches[c]) : CcStoreCaptains(c, i)
    \/ \E i \in 1..Len(ccFetches[c]) : CcCaptainsDone(c, i)
    \/ \E text \in WriteNameTexts : CcSetCaptainName(c, text)
    \/ \E text \in WriteMobileTexts : CcSetCaptainMobile(c, text)
    \/ nextId < MaxWriteRows /\ CcHandleCreateCaptain(c)
    \/ \E i \in 1..Len(ccCreates[c]) : CcStoreInsert(c, i)
    \/ \E i \in 1..Len(ccCreates[c]) : CcInsertDone(c, i)
    \/ \E i \in 1..Len(ccCreates[c]) : CcStoreRefresh(c, i)
    \/ \E i \in 1..Len(ccCreates[c]) : CcRefreshDone(c, i)
    \/ ccCreates[c] = <<>> /\ CcLeave(c)

SpecWrites == InitWrites /\ [][NextWrites]_vars

\* One organizer alone with the category modal, no other writer, every request
\* answered successfully by the store, requests overlapping: responses are
\* handled in any order.
NextOverlap ==
    LET c == "c1" IN
    \/ CatInFlight(c) < MaxOverlap /\ CatOpenModal(c)
    \/ \E i \in 1..Len(catFetches[c]) :
            CatStoreFetch(c, i) /\ catFetches'[c][i].error = NULL
    \/ \E i \in 1..Len(catFetches[c]) : CatFetchDone(c, i)
    \/ \E cat \in CategoryOptions : CatSetCategory(c, cat)
    \/ \E text \in MaxPlayersTexts : CatSetMaxPlayers(c, text)
    \/ \E text \in BasePriceTexts : CatSetBasePrice(c, text)
    \/ /\ CatInFlight(c) < MaxOverlap
       /\ Cardinality(auction_config) < MaxConfigs
       /\ editingId[c] = NoId /\ ~CatFormIncomplete(c)
       /\ CatHandleSubmit(c)
    \/ \E i \in 1..Len(catSaves[c]) :
            CatStoreSave(c, i) /\ catSaves'[c][i].error = NULL
    \/ \E i \in 1..Len(catSaves[c]) : CatSaveDone(c, i)
    \/ \E i \in 1..Len(configs[c]) : CatInFlight(c) < MaxOverlap /\ CatHandleDelete(c, i)
    \/ \E i \in 1..Len(catDeletes[c]) :
            CatStoreDelete(c, i) /\ catDeletes'[c][i].error = NULL
    \/ \E i \in 1..Len(catDeletes[c]) : CatDeleteDone(c, i)

SpecOverlap == InitShared /\ [][NextOverlap]_vars

\* Any visitor of either tournament, an organizer, another user, or one whose
\* user the page does not know yet: the voting item of the action menu, the
\* CreateTeams page or the CreateCaptains page.
AccessControls == {"voting", "teams", "captains"}

VisitorSessions ==
    {s \in [Clients -> [user : Callers, tournamentId : TournamentIds]] :
        s["c2"] = [user |-> "u1", tournamentId |-> "t1"]}

InitAccess ==
    /\ InitStore(1)
    /\ session \in VisitorSessions
    /\ InitPages
    /\ control \in AccessControls

NextAccess ==
    LET c == "c1" IN
    \/ control = "voting" /\ VotingHandleToggle(c)
    \/ VotingStoreUpdate(c, 1)
    \/ VotingToggleDone(c, 1)
    \/ control = "voting" /\ ParentRefresh(c)
    \/ control = "teams" /\ Len(ctFetches[c]) = 0 /\ CtVisit(c)
    \/ CtStoreTournament(c, 1)
    \/ CtTournamentDone(c, 1)
    \/ CtStoreTeams(c, 1)
    \/ CtTeamsDone(c, 1)
    \/ \E text \in WriteNameTexts : CtSetTeamName(c, text)
    \/ nextId < MaxWriteRows /\ CtHandleCreateTeam(c)
    \/ CtStoreInsert(c, 1)
    \/ CtCreateDone(c, 1)
    \/ control = "captains" /\ Len(ccFetches[c]) = 0 /\ CcVisit(c)
    \/ CcStoreTournament(c, 1)
    \/ CcTournamentDone(c, 1)
    \/ CcStoreCaptains(c, 1)
    \/ CcCaptainsDone(c, 1)
    \/ \E text \in WriteNameTexts : CcSetCaptainName(c, text)
    \/ \E text \in WriteMobileTexts : CcSetCaptainMobile(c, text)
    \/ nextId < MaxWriteRows /\ CcHandleCreateCaptain(c)
    \/ CcStoreInsert(c, 1)
    \/ CcInsertDone(c, 1)
    \/ CcStoreRefresh(c, 1)
    \/ CcRefreshDone(c, 1)
    \/ ccCreates[c] = <<>> /\ CcLeave(c)

SpecAccess == InitAccess /\ [][NextAccess]_vars

\* Any visitor working with one control, the captain search included, where
\* the store answers every request in the end and the handler that awaits the
\* answer then runs on.
InitLive ==
    /\ InitStore(1)
    /\ session \in VisitorSessions
    /\ InitPages
    /\ control \in Controls \cup {"votes"}

NextLive ==
    LET c == "c1" IN
    \/ NextWrites
    \/ control = "votes" /\ Len(vcFetches[c]) = 0 /\ VcVisit(c)
    \/ VcLeave(c)
    \/ VcStoreTournament(c, 1)
    \/ VcTournamentDone(c, 1)
    \/ VcStoreCaptains(c, 1)
    \/ VcCaptainsDone(c, 1)
    \/ \E open \in BOOLEAN : CtSetSearchModalOpen(c, open)
    \/ \E text \in WriteMobileTexts : CtSetSearchMobile(c, text)
    \/ CtHandleSearchCaptain(c)
    \/ CtStoreSearch(c, 1)
    \/ CtSearchDone(c, 1)
    \/ \E k \in 1..Len(searchResults[c]) : CtHandleSelectCaptain(c, k)

\* Every request in flight is answered by the store, and every handler that
\* awaits an answer resumes once the answer is there: each request on its own.
FairTimer(c) ==
    /\ \A i \in 1..MaxInFlightRace :
        /\ WF_vars(TimerStoreFetch(c, i) /\ UNCHANGED timerScenario)
        /\ WF_vars(TimerFetchDone(c, i) /\ UNCHANGED timerScenario)
    /\ WF_vars(TimerStoreSave(c, 1) /\ UNCHANGED timerScenario)
    /\ WF_vars(TimerSaveDone(c, 1) /\ UNCHANGED timerScenario)

FairMenu(c) ==
    /\ WF_vars(VotingStoreUpdate(c, 1)) /\ WF_vars(VotingToggleDone(c, 1))

FairCategory(c) ==
    /\ WF_vars(CatStoreFetch(c, 1)) /\ WF_vars(CatFetchDone(c, 1))
    /\ WF_vars(CatStoreSave(c, 1)) /\ WF_vars(CatSaveDone(c, 1))
    /\ WF_vars(CatStoreDelete(c, 1)) /\ WF_vars(CatDeleteDone(c, 1))

FairTeams(c) ==
    /\ WF_vars(CtStoreTournament(c, 1)) /\ WF_vars(CtTournamentDone(c, 1))
    /\ WF_vars(CtStoreTeams(c, 1)) /\ WF_vars(CtTeamsDone(c, 1))
    /\ WF_vars(CtStoreInsert(c, 1)) /\ WF_vars(CtCreateDone(c, 1))
    /\ WF_vars(CtStoreSearch(c, 1)) /\ WF_vars(CtSearchDone(c, 1))

FairCaptains(c) ==
    /\ WF_vars(CcStoreTournament(c, 1)) /\ WF_vars(CcTournamentDone(c, 1))
    /\ WF_vars(CcStoreCaptains(c, 1)) /\ WF_vars(CcCaptainsDone(c, 1))
    /\ WF_vars(CcStoreInsert(c, 1)) /\ WF_vars(CcInsertDone(c, 1))
    /\ WF_vars(CcStoreRefresh(c, 1)) /\ WF_vars(CcRefreshDone(c, 1))

FairVotes(c) ==
    /\ WF_vars(VcStoreTournament(c, 1)) /\ WF_vars(VcTournamentDone(c, 1))
    /\ WF_vars(VcStoreCaptains(c, 1)) /\ WF_vars(VcCaptainsDone(c, 1))

SpecLive ==
    /\ InitLive /\ [][NextLive]_vars
    /\ FairTimer("c1") /\ FairMenu("c1") /\ FairCategory("c1")
    /\ FairTeams("c1") /\ FairCaptains("c1") /\ FairVotes("c1")

\* Any caller issuing writes on the three tables of the migration, and
\* tournaments being removed.
NextPolicies ==
    \/ \E tid \in DOMAIN tournaments : TournamentDelete(tid)
    \/ \E caller \in Callers :
        \/ \E tid \in TournamentIds, n \in ApiBidTimes :
                nextId < MaxApiRows /\ ApiTimerInsert(caller, tid, n)
        \/ \E rid \in 1..MaxApiRows, n \in ApiBidTimes : ApiTimerUpdate(caller, rid, n)
        \/ \E rid \in 1..MaxApiRows : ApiTimerDelete(caller, rid)
        \/ \E tid \in TournamentIds, n \in 1..2 :
                nextId < MaxApiRows /\ ApiConfigInsert(caller, tid, n)
        \/ \E rid \in 1..MaxApiRows, n \in 1..2 : ApiConfigUpdate(caller, rid, n)
        \/ \E rid \in 1..MaxApiRows : ApiConfigDelete(caller, rid)
        \/ \E tid \in TournamentIds :
                nextId < MaxApiRows /\ ApiCaptainInsert(caller, tid)
        \/ \E rid \in 1..MaxApiRows, name \in CaptainNameTexts :
                ApiCaptainUpdate(caller, rid, name)
        \/ \E rid \in 1..MaxApiRows : ApiCaptainDelete(caller, rid)

SpecPolicies == Init /\ [][NextPolicies]_vars

\* Captains that have collected votes before the organizer works with a
\* control or looks at the votes: one of each tournament.
VotedCaptains ==
    {{[id |-> 10 + k, tournament_id |-> IF k = 1 THEN "t1" ELSE "t2",
       name |-> <<"B">>, mobile |-> <<"9">>, photo_url |-> NULL, created_by |-> NULL,
       votes |-> IF k = 1 THEN v ELSE MaxVotesValue, created_at |-> 10 + k,
       is_active |-> TRUE] : k \in 1..2} : v \in 0..MaxVotesValue}

InitSlice ==
    /\ tournaments = TournamentRows(1)
    /\ auction_timer = {}
    /\ auction_config = {}
    /\ teams = {}
    /\ profiles = StoredProfiles
    /\ tournament_captain \in VotedCaptains
    /\ nextId = 0
    /\ InitComponents
    /\ control \in Controls \cup {"votes"}

\* Every operation of the slice: the write controls and the votes page.
NextSlice ==
    \/ NextWrites
    \/ control = "votes" /\ VcVisit("c1")
    \/ VcLeave("c1")
    \/ \E i \in 1..Len(vcFetches["c1"]) : VcStoreTournament("c1", i)
    \/ \E i \in 1..Len(vcFetches["c1"]) : VcTournamentDone("c1", i)
    \/ \E i \in 1..Len(vcFetches["c1"]) : VcStoreCaptains("c1", i)
    \/ \E i \in 1..Len(vcFetches["c1"]) : VcCaptainsDone("c1", i)

SpecSlice == InitSlice /\ [][NextSlice]_vars

\* ======================================================= bid timer claims
\* The text parses (parseInt) to an integer n with 5 <= n <= 120.
ParsesInRange(text) ==
    LET n == ParseInt(text) IN ~n.isNaN /\ n.value >= 5 /\ n.value <= 120

\* C1: a submission of the bid-timer form whose text does not parse to an
\* integer in 5..120 issues no insert and no update, and leaves the
\* auction_timer rows as they are.
C1_RejectedSubmitWritesNothing ==
    [][\A c \in Clients :
        (TimerHandleSubmit(c) /\ ~ParsesInRange(bidTime[c]))
            => (timerSaves' = timerSaves /\ auction_timer' = auction_timer)]_vars

\* A rejected submission has happened: its notification is up, nothing is in flight.
C1_Witness ==
    \E c \in Clients :
        /\ toast = Toast(c, "Validation Error")
        /\ ~ParsesInRange(bidTime[c])
        /\ timerSaves[c] = <<>>

\* C2: one client, a tournament without a timer row: open, submit a valid
\* value, open again, submit a valid value (every request answered without an
\* error). The first submission inserts and the second one updates; from the
\* first save on there is exactly one row for the tournament, and after the
\* second save it holds the second value.
C2_SecondSubmitUpdates ==
    LET rows == TimerRowsOf(session["c1"].tournamentId)
        n == Len(timerScenario)
    IN  /\ n >= 3 => timerScenario[3].kind = "insert"
        /\ n >= 4 => Cardinality(rows) = 1
        /\ n >= 7 => timerScenario[7].kind = "update"
        /\ n = 8 => \A r \in rows : r.bid_time = timerScenario[7].n

\* The whole scenario has run, with two different values.
C2_Witness ==
    /\ Len(timerScenario) = 8
    /\ timerScenario[3].n # timerScenario[7].n

\* C3: whatever the clients do, in whatever order, auction_timer holds at
\* most one row per tournament_id.
C3_OneTimerRowPerTournament ==
    \A t \in TournamentIds : Cardinality(TimerRowsOf(t)) <= 1

\* Two clients opened the modal before any row existed and both submitted:
\* the second insert was refused by the store.
C3_Witness ==
    \E c \in Clients :
        /\ timerSaves[c] # <<>>
        /\ timerSaves[c][1].kind = "insert"
        /\ timerSaves[c][1].error = "unique"

\* C4: every auction_timer row written through the modal has bid_time in 5..120.
C4_BidTimeInRange ==
    \A r \in auction_timer : r.bid_time >= 5 /\ r.bid_time <= 120

\* A row holding a bound of the range, written by an update.
C4_Witness ==
    \E r \in auction_timer :
        /\ r.bid_time = 120
        /\ timerScenario # OffScenario /\ Len(timerScenario) = 8

\* ==================================================== category claims
\* C5: a successful delete of a config leaves its row in auction_config with
\* is_active = false and the category, max_players and base_price it had; the
\* row is there and inactive when the delete is reported; no later listing
\* contains an inactive row, and an inactive row never becomes active again.
C5_SoftDeleteKeepsRow ==
    [][/\ \A c \in Clients : \A i \in 1..Len(catDeletes[c]) :
            /\ (CatStoreDelete(c, i) /\ catDeletes'[c][i].error = NULL) =>
                \A r \in auction_config :
                    r.id = catDeletes[c][i].id =>
                        \E q \in auction_config' :
                            /\ q.id = r.id /\ ~q.is_active
                            /\ q.tournament_id = r.tournament_id
                            /\ q.category = r.category
                            /\ q.max_players = r.max_players
                            /\ q.base_price = r.base_price
            /\ (CatDeleteDone(c, i) /\ catDeletes[c][i].error = NULL) =>
                \E q \in auction_config : q.id = catDeletes[c][i].id /\ ~q.is_active
       /\ \A c \in Clients : \A i \in 1..Len(catFetches[c]) :
            (CatStoreFetch(c, i) /\ catFetches'[c][i].error = NULL) =>
                \A k \in 1..Len(catFetches'[c][i].data) :
                    /\ catFetches'[c][i].data[k] \in WithoutUpdatedAt(auction_config)
                    /\ catFetches'[c][i].data[k].is_active
       /\ \A r \in auction_config :
            ~r.is_active => \E q \in auction_config' : q.id = r.id /\ ~q.is_active]_vars

\* The delete of one of two configs has been reported and the list reloaded:
\* the deleted row is stored inactive and the list shows only the other one.
C5_Witness ==
    \E c \in Clients :
        /\ toast = Toast(c, "Success: Category deleted.")
        /\ ~catLoading[c] /\ CatInFlight(c) = 0
        /\ Len(configs[c]) = 1
        /\ \E r \in auction_config :
            /\ ~r.is_active
            /\ r.tournament_id = session[c].tournamentId
            /\ r.id # configs[c][1].id

\* ===================================================== voting flag claims
\* C6: a toggle made while the menu shows the flag as false stores true and is
\* reported by "Voting Started"; a toggle made while the menu shows it as true
\* stores false and is reported by "Voting Stopped".
C6_ToggleReportsAndPersists ==
    [][\A c \in Clients :
        LET tid == session[c].tournamentId IN
        /\ (VotingStoreUpdate(c, 1) /\ votingReqs'[c][1].error = NULL)
           => tournaments'[tid].is_voting_live = ~votingReqs[c][1].wasLive
        /\ (VotingToggleDone(c, 1) /\ votingReqs[c][1].error = NULL)
           => toast' = Toast(c, IF votingReqs[c][1].wasLive
                                THEN "Voting Stopped" ELSE "Voting Started")]_vars

\* The second toggle of a client has been reported: voting is off again.
C6_Witness ==
    \E c \in Clients :
        /\ toast = Toast(c, "Voting Stopped")
        /\ ~tournaments[session[c].tournamentId].is_voting_live
        /\ \A d \in Clients : votingReqs[d] = <<>>

\* ====================================================== CreateTeams claims
\* C7: whenever the page is rendered, it shows the form exactly when the loaded
\* team list is shorter than number_of_teams and the banner "All N teams have
\* been created!" (N = number_of_teams) exactly otherwise; and once the N-th
\* creation has succeeded, its response has been handled and the list has been
\* reloaded, the banner is shown in place of the form.
C7_FormOrBanner ==
    LET c == "c1"
        v == CtView(c)
        n == tournaments[session[c].tournamentId].number_of_teams
    IN
    /\ (route[c] = "CreateTeams" /\ v.kind = "page") =>
        /\ v.form <=> (Len(ctTeams[c]) < n)
        /\ v.banner <=> ~v.form
        /\ v.bannerN = n
    /\ (/\ toast = Toast(c, "Success: Team created successfully.")
        /\ ~ctLoading[c] /\ ctCreates[c] = <<>>
        /\ Cardinality(TeamsOf(session[c].tournamentId)) = n)
       => (v.kind = "page" /\ v.banner /\ ~v.form /\ v.bannerN = n)

\* Two teams created for a tournament of two: the banner has replaced the form.
C7_Witness ==
    LET c == "c1" IN
    /\ tournaments[session[c].tournamentId].number_of_teams = 2
    /\ Cardinality(TeamsOf(session[c].tournamentId)) = 2
    /\ toast = Toast(c, "Success: Team created successfully.")
    /\ route[c] = "CreateTeams"
    /\ CtView(c).banner /\ ~CtView(c).form
    /\ Len(ctTeams[c]) = 2

\* C8: the teams stored for a tournament never exceed its number_of_teams.
C8_StoredTeamsWithinNumber ==
    \A t \in TournamentIds : Cardinality(TeamsOf(t)) <= tournaments[t].number_of_teams

\* The whole text is a decimal number: an optional sign, digits, optionally a
\* point and digits, and nothing else.
IsNumberText(text) ==
    LET t == Trim(text)
        signed == t # <<>> /\ Head(t) \in {"-", "+"}
        body == IF signed THEN Tail(t) ELSE t
        ws == LeadingDigits(body)
        rest == SubSeq(body, Len(ws) + 1, Len(body))
        fs == IF rest # <<>> /\ Head(rest) = "." THEN LeadingDigits(Tail(rest)) ELSE <<>>
    IN  /\ ws # <<>> \/ fs # <<>>
        /\ Len(body) = Len(ws) + (IF rest # <<>> /\ Head(rest) = "." THEN 1 + Len(fs) ELSE 0)

IsPositiveFloat(x) == ~x.isNaN /\ ~FloatLeqZero(x)

\* C11: handleCreateTeam issues an insert only when the trimmed name is not
\* empty and the budget text is a number above zero, and every team row that
\* gets stored has a trimmed non-empty name and a budget_remaining above zero.
C11_CreateOnlyWhenValid ==
    [][/\ \A c \in Clients :
            (CtHandleCreateTeam(c) /\ ctCreates'[c] # ctCreates[c]) =>
                /\ Trim(teamName[c]) # <<>>
                /\ IsNumberText(teamBudget[c])
                /\ IsPositiveFloat(ParseFloat(teamBudget[c]))
       /\ \A r \in teams' \ teams :
            /\ r.name # <<>> /\ Trim(r.name) = r.name
            /\ IsPositiveFloat(r.budget_remaining)]_vars

\* =================================================== captain votes claims
\* C9: every list the page takes from a successful load holds each active
\* captain row of the tournament exactly once and no other row, and no captain
\* in it has fewer votes than the one after it.
C9_ListIsActiveByVotes ==
    [][\A c \in Clients :
        (VcCaptainsDone(c, 1) /\ vcFetches[c][1].error = NULL) =>
            LET list == captains'[c]
                tid == session[c].tournamentId
            IN  /\ {list[i] : i \in 1..Len(list)} =
                        {r \in tournament_captain : r.tournament_id = tid /\ r.is_active}
                /\ \A i, j \in 1..Len(list) : list[i] = list[j] => i = j
                /\ \A i \in 1..(Len(list) - 1) : list[i].votes >= list[i + 1].votes]_vars

\* A loaded list of two captains with different votes while the tournament
\* also has an inactive captain.
C9_Witness ==
    \E c \in Clients :
        /\ route[c] = "ViewCaptainVotes" /\ ~vcLoading[c]
        /\ Len(captains[c]) = 2
        /\ captains[c][1].votes > captains[c][2].votes
        /\ \E r \in tournament_captain :
            r.tournament_id = session[c].tournamentId /\ ~r.is_active

\* C10: maxVotes is at least 1: 1 for an empty list and for a list whose
\* captains all have 0 votes, else the largest votes of the list; and the
\* progress value of every listed captain is a number from 0 to 100.
C10_MaxVotesAndProgress ==
    \A c \in Clients :
        LET list == captains[c]
            m == maxVotes(c)
        IN  /\ m >= 1
            /\ (\A i \in 1..Len(list) : list[i].votes = 0) => m = 1
            /\ (\E i \in 1..Len(list) : list[i].votes > 0) =>
                /\ \E i \in 1..Len(list) : list[i].votes = m
                /\ \A i \in 1..Len(list) : list[i].votes <= m
            /\ \A i \in 1..Len(list) :
                list[i].votes >= 0 =>
                    LET p == ProgressValue(list[i].votes, m)
                    IN  /\ p.defined
                        /\ 0 <= p.hundredfold
                        /\ p.hundredfold <= 100 * p.by

\* A loaded list of captains none of whom has a vote yet: maxVotes is 1.
C10_Witness ==
    \E c \in Clients :
        /\ ~vcLoading[c]
        /\ Len(captains[c]) = 2
        /\ \A i \in 1..2 : captains[c][i].votes = 0
        /\ maxVotes(c) = 1

\* ================================================= CreateCaptains claims
\* C12: handleCreateCaptain issues an insert only when the name is not empty
\* and the mobile number has at least 10 characters, and every captain row
\* that gets stored has a non-empty name and a mobile of at least 10 characters.
C12_CaptainOnlyWhenValid ==
    [][/\ \A c \in Clients :
            (CcHandleCreateCaptain(c) /\ ccCreates'[c] # ccCreates[c]) =>
                /\ Trim(captainName[c]) # <<>>
                /\ Len(captainMobile[c]) >= 10
       /\ \A r \in tournament_captain' \ tournament_captain :
            r.name # <<>> /\ Len(r.mobile) >= 10]_vars

\* ============================================== category config claims (2)
\* C13: a submit of the category form with the category, the max players or
\* the base price empty issues no insert and no update on auction_config and
\* leaves the form fields, the edit mode and the stored rows as they were.
C13_IncompleteFormNoWrite ==
    [][\A c \in Clients :
        (/\ CatHandleSubmit(c)
         /\ (category[c] = NULL \/ maxPlayers[c] = <<>> \/ basePrice[c] = <<>>)) =>
            /\ catSaves' = catSaves
            /\ auction_config' = auction_config
            /\ <<category, maxPlayers, basePrice, editingId>>' =
                    <<category, maxPlayers, basePrice, editingId>>
            /\ toast' = Toast(c, "Validation Error")]_vars

\* A form with a category but no base price was submitted while a config is
\* stored: the validation toast is up and no save is in flight.
C13_Witness ==
    \E c \in Clients :
        /\ catOpen[c]
        /\ toast = Toast(c, "Validation Error")
        /\ category[c] # NULL /\ maxPlayers[c] # <<>> /\ basePrice[c] = <<>>
        /\ catSaves[c] = <<>>
        /\ auction_config # {}

\* C14: every stored auction_config row, created or updated through the
\* category form, has max_players of at least 1 and a base_price of at least 0.
C14_ConfigValuesInRange ==
    \A r \in auction_config : r.max_players >= 1 /\ ~r.base_price.neg

\* ==================================================== page load claims
\* C15: when the tournament query of the CreateTeams or of the CreateCaptains
\* page comes back without a tournament for the requested id, the page sends
\* the client to /tournaments.
C15_MissingTournamentRedirects ==
    [][\A c \in Clients :
        /\ \A i \in 1..Len(ctFetches[c]) :
            (/\ CtTournamentDone(c, i)
             /\ ctFetches[c][i].data = <<>> /\ ctFetches[c][i].error # "network") =>
                route'[c] = "/tournaments"
        /\ \A i \in 1..Len(ccFetches[c]) :
            (/\ CcTournamentDone(c, i)
             /\ ccFetches[c][i].data = <<>> /\ ccFetches[c][i].error # "network") =>
                route'[c] = "/tournaments"]_vars

\* ================================================ write request claims
\* Requests of a list that wait for the store in phase ph.
Pending(reqs, ph) == Cardinality({i \in 1..Len(reqs) : reqs[i].phase = ph})

\* The write requests of client c the store has not executed yet.
PendingWrites(c) ==
    Pending(timerSaves[c], "req") + Pending(catSaves[c], "req")
        + Pending(catDeletes[c], "req") + Pending(ctCreates[c], "req")
        + Pending(ccCreates[c], "insert") + Pending(votingReqs[c], "req")

\* A request of the list was answered with an error in this step.
FailedIn(reqs, reqs2, ph, ph2) ==
    /\ Len(reqs2) = Len(reqs)
    /\ \E i \in 1..Len(reqs) :
        reqs[i].phase = ph /\ reqs2[i].phase = ph2 /\ reqs2[i].error # NULL

\* C16: a timer save, category save, category delete, team create, captain
\* create or voting toggle adds exactly one write request and nothing else
\* ever adds one (no retry); the tables change only in a step in which the
\* store executes one pending write, and a write answered with an error
\* leaves the tables as they were.
C16_OneWriteNoRetry ==
    [][\A c \in Clients :
        /\ PendingWrites(c)' > PendingWrites(c) =>
            /\ PendingWrites(c)' = PendingWrites(c) + 1
            /\ \/ TimerHandleSubmit(c) \/ CatHandleSubmit(c)
               \/ \E i \in 1..Len(configs[c]) : CatHandleDelete(c, i)
               \/ CtHandleCreateTeam(c) \/ CcHandleCreateCaptain(c)
               \/ VotingHandleToggle(c)
        /\ tables' # tables =>
            \E d \in Clients : PendingWrites(d)' = PendingWrites(d) - 1
        /\ (\/ FailedIn(timerSaves[c], timerSaves'[c], "req", "resp")
            \/ FailedIn(catSaves[c], catSaves'[c], "req", "resp")
            \/ FailedIn(catDeletes[c], catDeletes'[c], "req", "resp")
            \/ FailedIn(ctCreates[c], ctCreates'[c], "req", "resp")
            \/ FailedIn(ccCreates[c], ccCreates'[c], "insert", "insert-resp")
            \/ FailedIn(votingReqs[c], votingReqs'[c], "req", "resp")) =>
                tables' = tables /\ nextId' = nextId]_vars

\* A team create failed: the error is reported, no team is stored, nothing is
\* in flight and the form accepts the next submit.
C16_Witness ==
    \E c \in Clients :
        /\ toast = Toast(c, "Error: Failed to create team.")
        /\ teams = {}
    /\ profiles = StoredProfiles
        /\ ctCreates[c] = <<>> /\ ctFetches[c] = <<>>
        /\ ~creating[c] /\ CtFormShown(c)

NonOrganizer(caller, tid) ==
    tid \in DOMAIN tournaments /\ tournaments[tid].organizer_id # caller

\* Inserts by a caller who is not the tournament's organizer are answered
\* with an error.
ForeignInsertsRefused(caller) ==
    \A tid \in DOMAIN tournaments :
        NonOrganizer(caller, tid) =>
            /\ TimerInsertError(caller, tid) # NULL
            /\ ConfigInsertError(caller, ApiConfigRow(tid, NoId, 1)) # NULL
            /\ CaptainInsertError(caller, ApiCaptainRow(tid, caller)) # NULL

\* Updates and deletes by such a caller leave the three tables as they are.
ForeignWritesWithoutEffect(caller) ==
    /\ \A r \in auction_timer :
        NonOrganizer(caller, r.tournament_id) =>
            /\ \A n \in ApiBidTimes : TimerUpdate(caller, r.id, n) = auction_timer
            /\ RowsDelete(caller, auction_timer, r.id) = auction_timer
    /\ \A r \in auction_config :
        NonOrganizer(caller, r.tournament_id) =>
            /\ \A n \in 1..2 :
                ConfigUpdate(caller, ApiConfigRow(NULL, r.id, n)) = auction_config
            /\ ConfigSoftDelete(caller, r.id) = auction_config
            /\ RowsDelete(caller, auction_config, r.id) = auction_config
    /\ \A r \in tournament_captain :
        NonOrganizer(caller, r.tournament_id) =>
            /\ \A name \in CaptainNameTexts :
                CaptainUpdate(caller, r.id, name) = tournament_captain
            /\ RowsDelete(caller, tournament_captain, r.id) = tournament_captain

\* Updates and deletes by such a caller are answered with an error.
ForeignWritesRefused(caller) ==
    /\ \A r \in auction_timer :
        NonOrganizer(caller, r.tournament_id) =>
            FilteredWriteError(caller, auction_timer, r.id) # NULL
    /\ \A r \in auction_config :
        NonOrganizer(caller, r.tournament_id) =>
            /\ FilteredWriteError(caller, auction_config, r.id) # NULL
            /\ ConfigUpdateError(caller, ApiConfigRow(NULL, r.id, 1)) # NULL
    /\ \A r \in tournament_captain :
        NonOrganizer(caller, r.tournament_id) =>
            FilteredWriteError(caller, tournament_captain, r.id) # NULL

SelectsSucceed(caller) ==
    /\ RowsSelect(caller, auction_timer) = auction_timer
    /\ RowsSelect(caller, auction_config) = auction_config
    /\ RowsSelect(caller, tournament_captain) = tournament_captain

\* C18 as stated: on auction_config, auction_timer and tournament_captain,
\* every insert, update or delete by a caller who is not the organizer of the
\* row's tournament is rejected with an error and leaves the table unchanged,
\* and every caller's select returns the rows.
C18_ForeignWritesRejected ==
    \A caller \in Callers :
        /\ ForeignInsertsRefused(caller)
        /\ ForeignWritesRefused(caller)
        /\ ForeignWritesWithoutEffect(caller)
        /\ SelectsSucceed(caller)

\* C18 amended: an insert by such a caller is rejected with an error; an update
\* or a delete by such a caller changes no row of the table (without being
\* answered with an error); every caller's select returns the rows.
C18_ForeignWritesWithoutEffect ==
    \A caller \in Callers :
        /\ ForeignInsertsRefused(caller)
        /\ ForeignWritesWithoutEffect(caller)
        /\ SelectsSucceed(caller)

\* Each of the three tables holds a row of some tournament, so that for each
\* there is a caller who is not its organizer.
C18_Witness ==
    /\ auction_timer # {} /\ auction_config # {} /\ tournament_captain # {}
    /\ \E caller \in Callers : \E r \in auction_timer : NonOrganizer(caller, r.tournament_id)

\* ================================================ ownership claims
\* C19: every auction_config, auction_timer and tournament_captain row
\* references a stored tournament; the removal of a tournament takes its rows
\* of the three tables with it.
C19_RowsReferenceTournament ==
    \A r \in auction_config \cup auction_timer \cup tournament_captain :
        r.tournament_id \in DOMAIN tournaments

\* A tournament was removed after every possible row had been inserted, and
\* rows of the other tournament are still stored.
C19_Witness ==
    /\ nextId = MaxApiRows
    /\ TournamentIds \ DOMAIN tournaments # {}
    /\ auction_config \cup auction_timer \cup tournament_captain # {}

\* ===================================================== votes claims
\* C20: no step of the slice changes the votes of a stored captain; a captain
\* row that a step adds has votes = 0; no stored captain has votes below 0.
C20_VotesUntouched ==
    [][\A q \in tournament_captain' :
        /\ q.votes >= 0
        /\ \A r \in tournament_captain : r.id = q.id => q.votes = r.votes
        /\ (\A r \in tournament_captain : r.id # q.id) => q.votes = 0]_vars

\* The form has added a captain next to one that has votes: the new row has
\* no votes and the old one has kept its own.
C20_Witness ==
    /\ \E q \in tournament_captain : q.id <= MaxWriteRows /\ q.votes = 0
    /\ \E r \in tournament_captain :
        r.id > MaxWriteRows /\ r.tournament_id = "t1" /\ r.votes = MaxVotesValue
    /\ toast = Toast("c1", "Success: Captain added successfully.")

\* The registered players of one mobile number, as the search lists them.
RegisteredWith(mobile) ==
    {[id |-> p.id, user_id |-> p.user_id, full_name |-> p.full_name, mobile |-> p.mobile] :
        p \in {q \in profiles : q.mobile = mobile /\ q.is_player_registered}}

SearchAnswered(c) ==
    /\ Len(ctSearches[c]) > 0
    /\ ctSearches[c][1].phase = "resp"
    /\ ctSearches[c][1].error = NULL
    /\ Len(ctSearches'[c]) < Len(ctSearches[c])

\* C21: handleSearchCaptain issues no query for a search string of fewer than
\* 10 characters; the results a successful search displays are exactly the
\* profiles whose mobile equals the search string and whose
\* is_player_registered is true; and the captain_id of every team the page
\* inserted is null or the user_id of a registered profile selected from such
\* results.
C21_Theorem ==
    /\ [](\A c \in Clients :
            /\ \A i \in 1..Len(ctSearches[c]) : Len(ctSearches[c][i].mobile) >= 10
            /\ selectedCaptain[c] # <<>> =>
                   selectedCaptain[c][1] \in RegisteredWith(selectedCaptain[c][1].mobile)
            /\ \A t \in teams :
                   \/ t.captain_id = NULL
                   \/ \E p \in profiles : /\ p.is_player_registered
                                          /\ Len(p.mobile) >= 10
                                          /\ p.user_id = t.captain_id)
    /\ [][\A c \in Clients :
            /\ Len(searchMobile[c]) < 10 => Len(ctSearches'[c]) <= Len(ctSearches[c])
            /\ SearchAnswered(c) =>
                   /\ {searchResults'[c][k] : k \in 1..Len(searchResults'[c])}
                          = RegisteredWith(ctSearches[c][1].mobile)
                   /\ Len(searchResults'[c]) = Cardinality(RegisteredWith(ctSearches[c][1].mobile))]_vars

\* A team whose captain was selected from the results of a search is stored,
\* and a later search with nine characters was refused with the validation
\* toast.
C21_Witness ==
    /\ \E t \in teams : t.captain_id = "u1"
    /\ Len(searchMobile["c1"]) = 9
    /\ toast = Toast("c1", "Validation Error")
    /\ ctSearches["c1"] = <<>>

\* ======================================================= toggle claims
\* The step in which the store applies the voting update of client c.
VotingWriteApplied(c) ==
    /\ Len(votingReqs[c]) > 0
    /\ votingReqs[c][1].phase = "req"
    /\ Len(votingReqs'[c]) > 0
    /\ votingReqs'[c][1].phase = "resp"
    /\ votingReqs'[c][1].error = NULL
    /\ TournamentWritable(session[c].user, session[c].tournamentId)

\* C22: every successful voting toggle is a single boolean flip of the stored
\* flag: is_voting_live after the write is the negation of its stored value
\* immediately before the write, for any interleaving of toggles by one or
\* more clients and whether or not the parent refreshed the prop in between.
C22_ToggleFlipsStoredFlag ==
    [][\A c \in Clients :
        VotingWriteApplied(c) =>
            tournaments'[session[c].tournamentId].is_voting_live
                = ~tournaments[session[c].tournamentId].is_voting_live]_vars

\* ================================================ shared config claims
\* The step in which the store answers the update that client c sent.
UpdateAnswered(c) ==
    /\ Len(catSaves[c]) > 0
    /\ catSaves[c][1].phase = "req"
    /\ catSaves[c][1].kind = "update"
    /\ Len(catSaves'[c]) > 0
    /\ catSaves'[c][1].phase = "resp"
    /\ catSaves'[c][1].error # "network"

\* The stored row rid holds the category, max_players and base_price of row.
HoldsValuesOf(table, rid, row) ==
    \E r \in table : /\ r.id = rid
                     /\ r.category = row.category
                     /\ r.max_players = row.max_players.value
                     /\ r.base_price = row.base_price

\* C23: when two clients edit the same auction_config row concurrently, each
\* update succeeds without a conflict error, and after every update the store
\* applies the row holds exactly the category, max_players and base_price of
\* that update (so finally those of the update applied last), whichever client
\* loaded the row first; nothing else changes the row.
C23_LastUpdateWins ==
    [][/\ \A c \in Clients :
            UpdateAnswered(c) =>
                /\ catSaves'[c][1].error = NULL
                /\ HoldsValuesOf(auction_config', catSaves[c][1].row.id, catSaves[c][1].row)
       /\ (\A c \in Clients : ~UpdateAnswered(c)) => auction_config' = auction_config]_vars

\* Both clients' updates of config 1 were answered without an error, they
\* differ, and the row holds the values of the second client's update.
C23_Witness ==
    /\ \A c \in Clients :
        /\ Len(catSaves[c]) = 1
        /\ catSaves[c][1].phase = "resp"
        /\ catSaves[c][1].error = NULL
        /\ catSaves[c][1].row.id = 1
    /\ catSaves["c1"][1].row.category # catSaves["c2"][1].row.category
    /\ catSaves["c1"][1].row.max_players # catSaves["c2"][1].row.max_players
    /\ HoldsValuesOf(auction_config, 1, catSaves["c2"][1].row)

\* The step in which the store answers the insert that client c sent.
InsertAnswered(c) ==
    /\ Len(catSaves[c]) > 0
    /\ catSaves[c][1].phase = "req"
    /\ catSaves[c][1].kind = "insert"
    /\ Len(catSaves'[c]) > 0
    /\ catSaves'[c][1].phase = "resp"
    /\ catSaves'[c][1].error # "network"

\* Active configs of one tournament and one category.
ActiveOf(table, tid, cat) ==
    {r \in table : r.tournament_id = tid /\ r.category = cat /\ r.is_active}

\* C24: adding a category config whose category equals that of an existing
\* active config of the same tournament succeeds, and leaves two active
\* auction_config rows with the same (tournament_id, category).
C24_DuplicateCategoryAccepted ==
    [][\A c \in Clients :
        LET row == catSaves[c][1].row IN
        (/\ InsertAnswered(c)
         /\ IsOrganizer(session[c].user, row.tournament_id)
         /\ ~row.max_players.isNaN /\ ~row.base_price.isNaN
         /\ ActiveOf(auction_config, row.tournament_id, row.category) # {}) =>
            /\ catSaves'[c][1].error = NULL
            /\ Cardinality(ActiveOf(auction_config', row.tournament_id, row.category))
                   = Cardinality(ActiveOf(auction_config, row.tournament_id, row.category)) + 1]_vars

\* Two active configs of tournament t1 have the same category, and the modal
\* reported the second as added.
C24_Witness ==
    /\ \E r1, r2 \in auction_config :
        /\ r1.id # r2.id
        /\ r1.tournament_id = "t1" /\ r2.tournament_id = "t1"
        /\ r1.category = r2.category
        /\ r1.is_active /\ r2.is_active
    /\ toast = Toast("c1", "Success: Category added.")

\* ======================================================== access claims
\* The step in which the CreateCaptains page of client c handles a tournament
\* row it read with captain_voting_enabled = false.
ReadVotingDisabled(c) ==
    /\ Len(ccFetches[c]) > 0
    /\ ccFetches[c][1].phase = "tournament-resp"
    /\ ccFetches[c][1].data # <<>>
    /\ ~ccFetches[c][1].data[1].captain_voting_enabled
    /\ ccFetches'[c] # ccFetches[c]

\* C25: the UI never issues a tournament_captain insert or an is_voting_live
\* update for a tournament whose captain_voting_enabled flag it read as false:
\* the CreateCaptains page redirects before showing its form, and the action
\* menu offers the Start/Stop Voting item only when isCaptainVoting is true.
C25_NoVotingWritesWhenDisabled ==
    /\ [](\A c \in Clients :
            /\ (CcFormShown(c) \/ ccCreates[c] # <<>>) =>
                   /\ ccTournament[c] # <<>>
                   /\ ccTournament[c][1].captain_voting_enabled
            /\ votingReqs[c] # <<>> =>
                   tournaments[session[c].tournamentId].captain_voting_enabled)
    /\ [][\A c \in Clients :
            ReadVotingDisabled(c) =>
                /\ route'[c] # "CreateCaptains"
                /\ ccTournament'[c] = <<>>
                /\ ccCreates'[c] = <<>>]_vars

\* The organizer of t2, whose captain voting is disabled, opened the
\* CreateCaptains page and was sent back with "Not Available".
C25_Witness ==
    /\ session["c1"] = [user |-> "u2", tournamentId |-> "t2"]
    /\ ~tournaments["t2"].captain_voting_enabled
    /\ toast = Toast("c1", "Not Available")
    /\ route["c1"] = "/tournaments/:id"
    /\ ccCreates["c1"] = <<>>

\* The caller of client c is not the organizer of the tournament of its page.
NotTheOrganizer(c) ==
    tournaments[session[c].tournamentId].organizer_id # session[c].user

\* C26: the team-creation form and the captain-creation form become usable
\* only for the tournament's organizer: for every caller whose identity is not
\* the tournament's organizer_id, including one whose user is not yet known
\* (null) when the page loads its data, the form is never shown and no team or
\* captain insert is issued.
C26_FormsForOrganizerOnly ==
    \A c \in Clients :
        NotTheOrganizer(c) =>
            /\ ~CtFormShown(c) /\ ~CcFormShown(c)
            /\ ctCreates[c] = <<>> /\ ccCreates[c] = <<>>

\* Callers whose user is known and is not the organizer never get a form.
KnownVisitorsRedirected ==
    \A c \in Clients :
        (NotTheOrganizer(c) /\ session[c].user # NULL) =>
            /\ ~CtFormShown(c) /\ ~CcFormShown(c)
            /\ ctCreates[c] = <<>> /\ ccCreates[c] = <<>>

\* ============================================== category list claims
\* C27: for a single client of CategoryConfigModal with no other writer, once
\* all of its outstanding requests have completed successfully, the displayed
\* config list equals the store's active auction_config rows of the
\* tournament, even when the responses of overlapping refresh fetches arrive
\* out of order.
C27_ListMatchesStoreWhenIdle ==
    LET c == "c1" IN
    (catOpen[c] /\ CatInFlight(c) = 0) =>
        configs[c] = ByCreatedAt(ConfigsListed(session[c].tournamentId))

\* The step in which the store answers the delete that client c sent.
DeleteAnswered(c) ==
    /\ Len(catDeletes[c]) > 0
    /\ catDeletes[c][1].phase = "req"
    /\ Len(catDeletes'[c]) > 0
    /\ catDeletes'[c][1].phase = "resp"
    /\ catDeletes'[c][1].error = NULL

\* The step in which the store executes a delete of client c on a config that
\* is already deleted.
DeletedAgain(c) ==
    /\ DeleteAnswered(c)
    /\ \E r \in auction_config : r.id = catDeletes[c][1].id /\ ~r.is_active

\* C28: is_active of an auction_config row never changes from false to true:
\* no operation reactivates a soft-deleted config (nor removes the row), and
\* deleting an already deleted config leaves the row unchanged.
C28_NoReactivation ==
    [][/\ \A r \in auction_config : ~r.is_active =>
            \E s \in auction_config' : s.id = r.id /\ ~s.is_active
       /\ \A c \in Clients : DeletedAgain(c) => auction_config' = auction_config]_vars

\* C28, amended: is_active never changes from false to true, and deleting an
\* already deleted config leaves every column of the row but updated_at
\* unchanged.
C28_NoReactivationButTouched ==
    [][/\ \A r \in auction_config : ~r.is_active =>
            \E s \in auction_config' : s.id = r.id /\ ~s.is_active
       /\ \A c \in Clients :
            DeletedAgain(c) =>
                WithoutUpdatedAt(auction_config') = WithoutUpdatedAt(auction_config)]_vars

\* Both clients deleted config 1 and both deletes were answered without an
\* error: the second met a row that was already deleted.
C28_Witness ==
    /\ \A c \in Clients :
        /\ Len(catDeletes[c]) = 1
        /\ catDeletes[c][1].phase = "resp"
        /\ catDeletes[c][1].error = NULL
        /\ catDeletes[c][1].id = 1
    /\ \E r \in auction_config : r.id = 1 /\ ~r.is_active

\* C29: an update issued by CategoryConfigModal in edit mode never modifies a
\* soft-deleted row: if the config being edited is deleted (by this client or
\* another) before the form is submitted, the submission does not change that
\* row's category, max_players or base_price and does not report
\* "Category updated.".
C29_DeletedRowNotEdited ==
    [][\A c \in Clients :
        \A r \in auction_config :
            (UpdateAnswered(c) /\ r.id = catSaves[c][1].row.id /\ ~r.is_active) =>
                /\ \E s \in auction_config' :
                        /\ s.id = r.id
                        /\ s.category = r.category
                        /\ s.max_players = r.max_players
                        /\ s.base_price = r.base_price
                /\ catSaves'[c][1].error # NULL]_vars

\* ====================================================== progress claims
\* C30: under fair delivery of store responses, every request started by a
\* component eventually clears its busy flag (loading, saving, creating,
\* searching, isTogglingVoting), whether the response is a success, an error
\* or leads to a redirect.
C30_BusyFlagsClear ==
    LET c == "c1" IN
    /\ timerLoading[c] ~> ~timerLoading[c]
    /\ timerSaving[c] ~> ~timerSaving[c]
    /\ isTogglingVoting[c] ~> ~isTogglingVoting[c]
    /\ catLoading[c] ~> ~catLoading[c]
    /\ catSaving[c] ~> ~catSaving[c]
    /\ (ctLoading[c] /\ ctFetches[c] # <<>>) ~> ~ctLoading[c]
    /\ creating[c] ~> ~creating[c]
    /\ searching[c] ~> ~searching[c]
    /\ (ccLoading[c] /\ ccFetches[c] # <<>>) ~> ~ccLoading[c]
    /\ ccCreating[c] ~> ~ccCreating[c]
    /\ (vcLoading[c] /\ vcFetches[c] # <<>>) ~> ~vcLoading[c]

\* A visitor who is not the organizer opened the CreateTeams page, was sent
\* back with "Access Denied", and the page's loading flag is cleared.
C30_Witness ==
    /\ session["c1"] = [user |-> "u2", tournamentId |-> "t1"]
    /\ toast = Toast("c1", "Access Denied")
    /\ route["c1"] = "/tournaments/:id"
    /\ ctFetches["c1"] = <<>>
    /\ ~ctLoading["c1"]

====
